---------------------------- MODULE Spec2Model ----------------------------
(***************************************************************************)
(* Model of the RADIUS ingestion pipeline of enet-subscriber-tracer:       *)
(*   - Tools/backfill_radius_history.py  (one-shot backfill, worker pool)  *)
(*   - Tools/radius_watcher.py           (polling watcher)                 *)
(*   - Tools/radius_parser.py            (batch parser / event watcher)    *)
(* The destination database is modelled by its committed contents:         *)
(* radius_matches (history), latest_traces (latest) and backfill_audit     *)
(* (audit).  A transaction becomes visible at its commit.                  *)
(* Record fields that no statement below reads back (tower_name, lat, lon, *)
(* device_model, updated_at, created_at) are left out of the rows.         *)
(***************************************************************************)
EXTENDS Naturals, Sequences, FiniteSets, TLC

(***************************************************************************)
(* Bounds of the model.                                                    *)
(***************************************************************************)
\* Config.BATCH_SIZE is 1000 in the source; files of the model are a few
\* entries long, so the batch size is scaled down with them.
BATCH_SIZE == 2
\* Config.MAX_WORKERS is min(cpu_count(), 8); the model runs on two CPUs.
MAX_WORKERS == 2
\* Number of backfill() invocations (first start and restarts) explored.
MaxRuns == 2
\* Number of faults (a failed statement, commit, unlink, checkpoint write or
\* read, a killed process) injected in one behaviour.
MaxFaults == 1
\* Number of checkpoint saves of one worker explored beside another's.
MaxSaves == 2
\* Longest generated location code, in hex characters after the prefix.
MaxHexLen == 9

(***************************************************************************)
(* Raw entries: the attributes build_record reads from one block.          *)
(***************************************************************************)
MA == "5926000001"
MB == "5926000002"
ShortMsisdn == "5926000"

\* 3GPP-User-Location-Info as its hex digits (after the 0x prefix).
ULI1 == <<8, 2, 0, 0, 0, 15, 12, 7, 0, 14>>
ULI2 == <<8, 2, 0, 0, 0, 15, 11, 2, 0, 13>>
ULIShort == <<0, 15, 12>>

\* Event-Timestamp: absent, unparseable, or "Mon DD YYYY HH:MM:SS UTC" on
\* local day `day` (0 is today) at time-of-day rank t.
NoTs == [kind |-> "absent", day |-> 0, t |-> 0]
BadTs == [kind |-> "bad", day |-> 0, t |-> 0]
Ts(t) == [kind |-> "utc", day |-> 0, t |-> t]
TsYesterday(t) == [kind |-> "utc", day |-> 1, t |-> t]

Entry(cs, imsi, uli, ts) ==
    [cs |-> cs, imsi |-> imsi, uli |-> uli, ts |-> ts]

(***************************************************************************)
(* Source files.  Both files of the model are today's detail files of one  *)
(* gateway directory.  A file's content is one of the catalogue's.         *)
(***************************************************************************)
Files == {"a1", "a2"}

FileOrder == <<"a1", "a2">>

Catalogue ==
    << \* 1: three valid records, one full batch and a final batch
       << Entry(MA, "i1", ULI1, Ts(1)),
          Entry(MB, "i2", ULI1, Ts(2)),
          Entry(MA, "i1", ULI2, Ts(3)) >>,
       \* 2: out of order, a rejected entry, a duplicate natural key with
       \*    another imsi; two full batches, no final batch
       << Entry(MA, "i1", ULI1, Ts(2)),
          Entry("", "i1", ULI1, Ts(2)),
          Entry(MA, "i1", ULI1, Ts(1)),
          Entry(MA, "i9", ULI1, Ts(1)),
          Entry(MB, "i2", ULI2, Ts(1)) >>,
       \* 3: rejected entries of each kind around one valid record
       << Entry(MA, "i1", ULIShort, Ts(1)),
          Entry(ShortMsisdn, "i3", ULI1, Ts(1)),
          Entry(MB, "i2", ULI2, TsYesterday(3)),
          Entry(MB, "i2", ULI2, Ts(3)),
          Entry(MB, "i2", <<>>, BadTs) >> >>


\* The contents of a1 and of a2, as catalogue entries.
Scenarios == {<<1, 2>>, <<2, 3>>, <<3, 1>>}

Position(f) == CHOOSE i \in 1..Len(FileOrder) : FileOrder[i] = f

(***************************************************************************)
(* Location decoding.                                                      *)
(***************************************************************************)
None == [none |-> TRUE]

\* A location code as text: an optional 0x prefix and hex characters.
Hex(prefixed, digits) == [prefixed |-> prefixed, digits |-> digits]

\* The call has not been made.
Pending == [pending |-> TRUE]

\* The call raised to its caller.
Raised == [raised |-> TRUE]

RECURSIVE HexValue(_)
\* int(eci_hex, 16)
HexValue(digits) ==
    IF digits = <<>> THEN 0
    ELSE 16 * HexValue(SubSeq(digits, 1, Len(digits) - 1)) + digits[Len(digits)]

\* Tools.cell_mapper.decode_location_info: the last 8 hex characters are the
\* cell-global identifier; fewer than 8 characters is a decode failure.
decode_location_info(hex) ==
    IF Len(hex) < 8 THEN None
    ELSE LET eci == HexValue(SubSeq(hex, Len(hex) - 7, Len(hex)))
         IN  [enodeb |-> eci \div 256, cell_id |-> eci % 256]

\* uli_hex[-8:], hex_clean[-8:]: the last 8 characters, or all of them.
Last8(digits) ==
    IF Len(digits) <= 8 THEN digits
    ELSE SubSeq(digits, Len(digits) - 7, Len(digits))

\* A faulty decoder: the station is taken from the low 20 bits of the cell
\* identifier.
decode_enodeb_cellid_low20(s) ==
    IF Last8(s.digits) = <<>> THEN Raised
    ELSE LET eci == HexValue(Last8(s.digits))
         IN  [enodeb_id |-> eci % 1048576, cell_id |-> eci % 256]

\* backfill_radius_history.decode_enodeb_cellid: a leading 0x is cut, the
\* last 8 characters are read as hex; int('', 16) raises ValueError and
\* nothing catches it.
decode_enodeb_cellid(s) ==
    IF Last8(s.digits) = <<>> THEN Raised
    ELSE LET eci == HexValue(Last8(s.digits))
         IN  [enodeb_id |-> eci \div 256, cell_id |-> eci % 256]

\* radius_parser.decode_eci: None below 8 characters; the station is
\* (eci >> 8) & 0xFFFFF.
decode_eci(s) ==
    IF Len(s.digits) < 8 THEN None
    ELSE LET eci == HexValue(Last8(s.digits))
         IN  [enodeb_id |-> (eci \div 256) % 1048576, cell_id |-> eci % 256,
              eci |-> eci]

\* The block has no 3GPP-User-Location-Info line.
NoLoc == [absent |-> TRUE]

\* record['timestamp'] = datetime.fromtimestamp(int(value)), when the block
\* has a Timestamp line that int() accepts.
ParsedTimestamp(raw_ts) ==
    IF raw_ts.kind = "utc" THEN [given |-> TRUE, t |-> raw_ts.t]
    ELSE [given |-> FALSE, t |-> 0]

\* radius_parser.parse_radius_record: the record of a block, kept when
\* msisdn and enodeb_id are truthy.
parse_radius_record(entry) ==
    LET decoded == IF entry.uli = NoLoc THEN None ELSE decode_eci(entry.uli)
    IN  IF entry.cs = "" THEN None
        ELSE IF decoded = None THEN None
        ELSE IF decoded.enodeb_id = 0 THEN None
        ELSE [msisdn |-> entry.cs, imsi |-> entry.imsi,
              enodeb_id |-> decoded.enodeb_id, cell_id |-> decoded.cell_id,
              timestamp |-> ParsedTimestamp(entry.ts)]

\* process_location: a failed or malformed decode is None.
process_location(raw_loc) == decode_location_info(raw_loc)

\* process_timestamp: None unless the text parses and falls on today's local
\* date; otherwise the timestamp re-rendered in the local offset.
process_timestamp(raw_ts) ==
    IF raw_ts.kind # "utc" THEN None
    ELSE IF raw_ts.day # 0 THEN None
    ELSE [t |-> raw_ts.t]

\* RadiusRecord.validate_msisdn
validate_msisdn(v) == v # "" /\ Len(v) >= 10

\* build_record: the canonical record of an entry, or None.
build_record(entry) ==
    LET msisdn == entry.cs
        raw_loc == entry.uli
        raw_ts == entry.ts
    IN  IF msisdn = "" \/ raw_loc = <<>> \/ raw_ts.kind = "absent" THEN None
        ELSE LET timestamp == process_timestamp(raw_ts)
                 location_data == process_location(raw_loc)
             IN  IF timestamp = None THEN None
                 ELSE IF location_data = None THEN None
                 ELSE IF ~validate_msisdn(msisdn) THEN None
                 ELSE [msisdn |-> msisdn, imsi |-> entry.imsi,
                       enodeb_id |-> location_data.enodeb,
                       cell_id |-> location_data.cell_id,
                       timestamp |-> timestamp.t]

(***************************************************************************)
(* The tables.  history and latest are sets of rows; the unique constraint *)
(* and the primary key are enforced by the statements, as in the database. *)
(***************************************************************************)
\* CONSTRAINT unique_radius_entry UNIQUE (msisdn, enodeb_id, cell_id, timestamp)
NaturalKey(r) == <<r.msisdn, r.enodeb_id, r.cell_id, r.timestamp>>

HistoryRow(r) ==
    [msisdn |-> r.msisdn, imsi |-> r.imsi, enodeb_id |-> r.enodeb_id,
     cell_id |-> r.cell_id, timestamp |-> r.timestamp]

\* A faulty statement: ON CONFLICT ... DO UPDATE in place of DO NOTHING.
InsertHistoryOverwrite(hist, r) ==
    {h \in hist : NaturalKey(h) # NaturalKey(r)} \cup {HistoryRow(r)}

\* INSERT INTO radius_matches ... ON CONFLICT ON CONSTRAINT
\* unique_radius_entry DO NOTHING, for one parameter tuple.
InsertHistory(hist, r) ==
    IF \E h \in hist : NaturalKey(h) = NaturalKey(r)
    THEN hist
    ELSE hist \cup {HistoryRow(r)}

RECURSIVE InsertHistoryMany(_, _)
\* cur.executemany over matches_data, in the order of the batch
InsertHistoryMany(hist, records) ==
    IF records = <<>> THEN hist
    ELSE InsertHistoryMany(InsertHistory(hist, Head(records)), Tail(records))

LatestRow(r, source) ==
    [msisdn |-> r.msisdn, imsi |-> r.imsi, enodeb_id |-> r.enodeb_id,
     cell_id |-> r.cell_id, timestamp |-> r.timestamp, source |-> source]

HasLatest(tbl, m) == \E l \in tbl : l.msisdn = m

GetLatest(tbl, m) == CHOOSE l \in tbl : l.msisdn = m

\* A guarded upsert: ... DO UPDATE ... WHERE latest_traces.timestamp <
\* EXCLUDED.timestamp, with the backfill's tag.
UpsertLatestBackfillGuarded(tbl, r) ==
    IF HasLatest(tbl, r.msisdn) /\ ~(GetLatest(tbl, r.msisdn).timestamp < r.timestamp)
    THEN tbl
    ELSE {l \in tbl : l.msisdn # r.msisdn} \cup {LatestRow(r, "backfill")}

\* backfill: INSERT INTO latest_traces ... ON CONFLICT (msisdn) DO UPDATE SET
\* every column, source = 'backfill', with no WHERE clause.
UpsertLatestBackfill(tbl, r) ==
    {l \in tbl : l.msisdn # r.msisdn} \cup {LatestRow(r, "backfill")}

RECURSIVE UpsertLatestBackfillMany(_, _)
UpsertLatestBackfillMany(tbl, records) ==
    IF records = <<>> THEN tbl
    ELSE UpsertLatestBackfillMany(UpsertLatestBackfill(tbl, Head(records)),
                                  Tail(records))

\* polling watcher: ... ON CONFLICT (msisdn) DO UPDATE SET ..., source =
\* 'radius' WHERE latest_traces.timestamp < EXCLUDED.timestamp
UpsertLatestWatcher(tbl, r) ==
    IF ~HasLatest(tbl, r.msisdn)
    THEN tbl \cup {LatestRow(r, "radius")}
    ELSE IF GetLatest(tbl, r.msisdn).timestamp < r.timestamp
    THEN {l \in tbl : l.msisdn # r.msisdn} \cup {LatestRow(r, "radius")}
    ELSE tbl

RECURSIVE UpsertLatestWatcherMany(_, _)
UpsertLatestWatcherMany(tbl, records) ==
    IF records = <<>> THEN tbl
    ELSE UpsertLatestWatcherMany(UpsertLatestWatcher(tbl, Head(records)),
                                 Tail(records))

\* Two tuples of one multi-row INSERT ... ON CONFLICT DO UPDATE propose the
\* same msisdn: the database rejects the statement.
AffectsRowTwice(records) ==
    \E i, j \in 1..Len(records) : i < j /\ records[i].msisdn = records[j].msisdn

\* radius_parser.upsert_latest_traces: one execute_values statement for the
\* batch; unconditional overwrite with source = 'radius'.
UpsertLatestParser(tbl, records) ==
    {l \in tbl : \A i \in 1..Len(records) : records[i].msisdn # l.msisdn}
        \cup {LatestRow(records[i], "radius") : i \in 1..Len(records)}

(***************************************************************************)
(* backfill_audit                                                          *)
(***************************************************************************)
\* A faulty statement: a plain INSERT on a table without the primary key.
InsertAuditNoKey(tbl, row) == tbl \cup {row}

\* INSERT INTO backfill_audit ... ON CONFLICT (filename) DO NOTHING
InsertAudit(tbl, row) ==
    IF \E a \in tbl : a.filename = row.filename THEN tbl ELSE tbl \cup {row}

(***************************************************************************)
(* ProgressTracker: the checkpoint file is a sequence of filename|position *)
(* lines.                                                                  *)
(***************************************************************************)
\* ProgressTracker.save: append one line
TrackerSave(lines, filename, position) ==
    Append(lines, [filename |-> filename, position |-> position])

\* ProgressTracker.load().get(log_file, 0): the last line of the file wins
TrackerLoad(lines, filename) ==
    LET idx == {i \in 1..Len(lines) : lines[i].filename = filename}
    IN  IF idx = {} THEN 0
        ELSE lines[CHOOSE i \in idx : \A j \in idx : j <= i].position

\* ProgressTracker.clear: unlink the checkpoint file
TrackerClear(lines) == <<>>


(***************************************************************************)
(* State.                                                                  *)
(***************************************************************************)
VARIABLES
    content,      \* content[f]: the catalogue entry file f holds
    present,      \* present[f]: the source file exists in the directory
    history,      \* committed rows of radius_matches
    latest,       \* committed rows of latest_traces
    audit,        \* committed rows of backfill_audit
    progress,     \* lines of Config.PROGRESS_FILE
    lock,         \* Config.LOCK_FILE exists
    opc,          \* position of backfill(): idle, init, pool, maint, cleanup
    run,          \* backfill() invocations so far
    faults,       \* faults injected so far
    wpc,          \* wpc[f]: position of process_log_file(f)
    resume_pos,   \* process_log_file's resume_pos
    pos,          \* entries read so far (entry_num + 1)
    batch,        \* process_log_file's batch
    processed,    \* process_log_file's processed
    inserted,     \* process_log_file's inserted
    submitted,    \* entry indexes built and handed to bulk_insert_records
                  \* by the current process_log_file(f)
    lastSaved,    \* the last position the current process_log_file(f) saved
    auditCommits, \* audit inserts committed for f, over all runs
    auditedInRun, \* the audit insert of f committed in the current run
    ipc,          \* tail paths: position of radius_parser's batch write
    ibatch,       \* tail paths: the batch being written
    lastPath,     \* tail paths: the path of the last committed latest write
    lastBatch,    \* tail paths: the records of that write
    bpc,          \* bpc[i]: position of the i-th concurrent backfill()
    bruns,        \* bruns[i]: invocations of the i-th backfill() so far
    spc,          \* spc[f]: position of f's worker inside ProgressTracker.save
    tlock,        \* tlock[t]: the threading.Lock of tracker t is held
    uin,          \* decoders: the location code handed to them
    dres,         \* decoders: dres[d] is what decoder d returned for uin
    din,          \* one block: the attributes the ingestion paths read
    ddone,        \* one block: the ingestion paths that have handled it
    frontend,     \* followers: the front-end that follows the detail file
    detail,       \* followers: the lines written to the detail file so far
    file_positions, \* followers: lines of the detail file read so far
    buffer,       \* followers: the lines kept from one iteration to the next
    all_records,  \* followers: the blocks parsed into records so far
    last_pos,     \* followers: the offset the last read of a watcher sought
    rotations,    \* followers: rotations of the detail file so far
    text_in,      \* splitter: the lines of the file read_log_entries reads
    yielded,      \* splitter: the entries read_log_entries has yielded
    lpc,          \* live tail: lpc[p] is the position of the follow_lines thread of path p
    temp,         \* live tail: the content of /tmp/live_radius_block
    handed,       \* live tail: handed[p] is what the parsers launched for p have read
    pgw_pos,      \* sources: the index of the source backfill() is processing
    fstate,       \* sources: fstate[f] is the state of the future of file f
    pool,         \* sources: pool[w] is the file worker w of the executor runs
    handled,      \* sources: handled[f] is the set of workers that have run f
    apc,          \* login: apc[r] is the position of request r in login()
    db_lock,      \* login: the holder of security.db_lock, or "free"
    failed_attempts,\* login: users.failed_attempts of the user
    locked_until, \* login: users.locked_until of the user against the clock
    tpc,          \* incremental: the position of process_radius_logs
    since_ts,     \* incremental: last_ts as the run read it
    state_ts,     \* incremental: the timestamp in Config.STATE_FILE (0: epoch)
    tfiles,       \* incremental: tfiles[f] is the state of the future of file f
    stored,       \* incremental: the files whose event is in the database
    event_ts,     \* incremental: event_ts[f] is the Event-Timestamp in file f
    clock         \* incremental: datetime.now()

dbVars == <<history, latest>>

diskVars == <<content, present, progress, lock>>

ctlVars == <<opc, run>>

localVars ==
    <<resume_pos, pos, batch, processed, inserted, submitted, lastSaved>>

auditVars == <<audit, auditCommits, auditedInRun>>

tailVars == <<ipc, ibatch, lastPath, lastBatch>>

lockVars == <<bpc, bruns>>

saveVars == <<spc, tlock>>

\* State of the specifications that stand beside the one at hand.
decodeVars == <<uin, dres>>

blockVars == <<din, ddone>>

followVars ==
    <<frontend, detail, file_positions, buffer, all_records, last_pos,
      rotations>>

splitVars == <<text_in, yielded>>

liveVars == <<lpc, temp, handed>>

poolVars == <<pgw_pos, fstate, pool, handled>>

loginVars == <<apc, db_lock, failed_attempts, locked_until>>

incrVars == <<tpc, since_ts, state_ts, tfiles, stored, event_ts, clock>>

sideVars ==
    <<lockVars, saveVars, decodeVars, blockVars, followVars, splitVars,
      liveVars, poolVars, loginVars, incrVars>>

vars ==
    <<dbVars, diskVars, ctlVars, faults, wpc, localVars, auditVars,
      tailVars, sideVars>>

Entries(f) == Catalogue[content[f]]

\* int(time.time() - start_time), as far as the model tells runtimes apart
Runtimes == {0, 1}

Failed ==
    {"failed_io", "failed_insert", "failed_upsert", "failed_commit",
     "failed_audit"}

Terminal == {"done"} \cup Failed

Active == {"reading", "hist", "save", "audit", "unlink"}

Running == {f \in Files : wpc[f] \in Active}

TailIdle ==
    /\ ipc = "idle"
    /\ ibatch = <<>>
    /\ lastPath = "none"
    /\ lastBatch = <<>>

\* Two operators (or cron and an operator) may start backfill() at once.
Invocations == {"p1", "p2"}

LockIdle ==
    /\ bpc = [i \in Invocations |-> "idle"]
    /\ bruns = [i \in Invocations |-> 0]

\* tracker = ProgressTracker() in process_log_file: every call builds its
\* own tracker, and ProgressTracker.__init__ its own threading.Lock.
TrackerOf(f) == f

Trackers == {TrackerOf(f) : f \in Files}

SaveIdle ==
    /\ spc = [f \in Files |-> "out"]
    /\ tlock = [t \in Trackers |-> FALSE]

Decoders == {"decode_enodeb_cellid", "decode_eci", "parse_radius_record"}

DecodeIdle ==
    /\ uin = Hex(FALSE, <<>>)
    /\ dres = [d \in Decoders |-> Pending]

\* One block of a detail file: Calling-Station-Id, 3GPP-IMSI,
\* 3GPP-User-Location-Info, Event-Timestamp (text) and Timestamp (epoch).
Block(cs, imsi, uli, ts, epoch) ==
    [cs |-> cs, imsi |-> imsi, uli |-> uli, ts |-> ts, epoch |-> epoch]

BlockIdle ==
    /\ din = Block("", "", NoLoc, NoTs, NoTs)
    /\ ddone = {}

FollowIdle ==
    /\ frontend = "process_file"
    /\ detail = <<>>
    /\ file_positions = 0
    /\ buffer = <<>>
    /\ all_records = <<>>
    /\ last_pos = 0
    /\ rotations = 0

SplitIdle ==
    /\ text_in = <<>>
    /\ yielded = [done |-> FALSE, entries |-> <<>>]

\* The paths radius_watcher_live follows.
WATCH_PATHS == {"100.64.145.34", "10.20.50.67"}

LiveIdle ==
    /\ lpc = [p \in WATCH_PATHS |-> "reading"]
    /\ temp = <<>>
    /\ handed = [p \in WATCH_PATHS |-> <<>>]

\* all_logs: the sorted files of each source directory, in the order
\* all_logs.items() gives them.
SourceFiles == << <<"d1", "d2", "d3">>, <<"e1", "e2">> >>

\* The files of source s.
FilesOf(s) == {SourceFiles[s][i] : i \in DOMAIN SourceFiles[s]}

AllSourceFiles == UNION {FilesOf(s) : s \in DOMAIN SourceFiles}

PoolIdle ==
    /\ pgw_pos = 0
    /\ fstate = [f \in AllSourceFiles |-> "found"]
    /\ pool = [w \in 1..MAX_WORKERS |-> "none"]
    /\ handled = [f \in AllSourceFiles |-> {}]

\* The requests that log the user in, each on its own thread.
Requests == {"r1", "r2"}

LoginIdle ==
    /\ apc = [r \in Requests |-> "idle"]
    /\ db_lock = "free"
    /\ failed_attempts = 0
    /\ locked_until = "null"

\* The log files trace_incremental finds, each with one event.
LogFiles == {"x.log", "y.log"}

\* The latest Event-Timestamp of the files.
MaxEventTime == 2

\* The last reading of the clock.
MaxClock == 4

IncrIdle ==
    /\ tpc = "idle"
    /\ since_ts = 0
    /\ state_ts = 0
    /\ tfiles = [f \in LogFiles |-> "waiting"]
    /\ stored = {}
    /\ event_ts = [f \in LogFiles |-> 1]
    /\ clock = MaxEventTime

SideIdle ==
    /\ LockIdle
    /\ SaveIdle
    /\ DecodeIdle
    /\ BlockIdle
    /\ FollowIdle
    /\ SplitIdle
    /\ LiveIdle
    /\ PoolIdle
    /\ LoginIdle
    /\ IncrIdle

LocalsReset ==
    /\ resume_pos' = [f \in Files |-> 0]
    /\ pos' = [f \in Files |-> 0]
    /\ batch' = [f \in Files |-> <<>>]
    /\ processed' = [f \in Files |-> 0]
    /\ inserted' = [f \in Files |-> 0]
    /\ submitted' = [f \in Files |-> {}]
    /\ lastSaved' = [f \in Files |-> 0]

(***************************************************************************)
(* Initial state: an idle system, empty tables, both detail files in the   *)
(* gateway directory or only one of them.                                  *)
(***************************************************************************)
Init ==
    /\ \E sc \in Scenarios : content = [f \in Files |-> sc[Position(f)]]
    /\ present \in {p \in [Files -> BOOLEAN] : \E f \in Files : p[f]}
    /\ history = {}
    /\ latest = {}
    /\ audit = {}
    /\ progress = <<>>
    /\ lock = FALSE
    /\ opc = "idle"
    /\ run = 0
    /\ faults = 0
    /\ wpc = [f \in Files |-> "idle"]
    /\ resume_pos = [f \in Files |-> 0]
    /\ pos = [f \in Files |-> 0]
    /\ batch = [f \in Files |-> <<>>]
    /\ processed = [f \in Files |-> 0]
    /\ inserted = [f \in Files |-> 0]
    /\ submitted = [f \in Files |-> {}]
    /\ lastSaved = [f \in Files |-> 0]
    /\ auditCommits = [f \in Files |-> 0]
    /\ auditedInRun = [f \in Files |-> FALSE]
    /\ TailIdle
    /\ SideIdle

CanFault == faults < MaxFaults

(***************************************************************************)
(* backfill(): the orchestrator.                                           *)
(***************************************************************************)
\* backfill() is invoked while the lock file exists: it returns at once.
StartBlocked ==
    /\ opc = "idle"
    /\ run < MaxRuns
    /\ lock
    /\ run' = run + 1
    /\ UNCHANGED <<dbVars, diskVars, opc, faults, wpc, localVars, auditVars,
                   tailVars, sideVars>>

\* backfill() creates the lock file and enters its try block.
Start ==
    /\ opc = "idle"
    /\ run < MaxRuns
    /\ ~lock
    /\ run' = run + 1
    /\ lock' = TRUE
    /\ opc' = "init"
    /\ UNCHANGED <<dbVars, content, present, progress, faults, wpc,
                   localVars, auditVars, tailVars, sideVars>>

\* create_tables_if_not_exists and get_all_log_files; every discovered file
\* of the gateway directory is submitted to the pool.  No file: return
\* through the finally block.
Discover ==
    /\ opc = "init"
    /\ opc' = IF \E f \in Files : present[f] THEN "pool" ELSE "cleanup"
    /\ wpc' = [f \in Files |-> IF present[f] THEN "queued" ELSE "idle"]
    /\ UNCHANGED <<dbVars, diskVars, run, faults, localVars, auditVars,
                   tailVars, sideVars>>

\* The connection or the directory scan raises: except, then finally.
DiscoverFails ==
    /\ opc = "init"
    /\ CanFault
    /\ faults' = faults + 1
    /\ opc' = "cleanup"
    /\ UNCHANGED <<dbVars, diskVars, run, wpc, localVars, auditVars,
                   tailVars, sideVars>>

\* A faulty pool: stop collecting at the first failed future.
PoolFinishedOrFailed(w) ==
    \/ \A f \in Files : w[f] \in Terminal \cup {"idle"}
    \/ \E f \in Files : w[f] \in Failed

\* for future in as_completed(...) inside the executor's with block: every
\* submitted file has returned or raised.
PoolFinished(w) == \A f \in Files : w[f] \in Terminal \cup {"idle"}

\* The pool of the source is drained; perform_maintenance is next.
Collect ==
    /\ opc = "pool"
    /\ PoolFinished(wpc)
    /\ opc' = "maint"
    /\ UNCHANGED <<dbVars, diskVars, run, faults, wpc, localVars, auditVars,
                   tailVars, sideVars>>

\* perform_maintenance: the purge reaches only audit rows older than
\* PURGE_AGE_DAYS, and every file of the model is today's.
Maintenance ==
    /\ opc = "maint"
    /\ opc' = "cleanup"
    /\ UNCHANGED <<dbVars, diskVars, run, faults, wpc, localVars, auditVars,
                   tailVars, sideVars>>

\* finally: unlink the lock file and clear the checkpoints; backfill()
\* returns and the workers' frames are gone.
Cleanup ==
    /\ opc = "cleanup"
    /\ lock' = FALSE
    /\ progress' = TrackerClear(progress)
    /\ opc' = "idle"
    /\ wpc' = [f \in Files |-> "idle"]
    /\ LocalsReset
    /\ auditedInRun' = [f \in Files |-> FALSE]
    /\ UNCHANGED <<dbVars, content, present, run, faults, audit,
                   auditCommits, tailVars, sideVars>>

\* The process is killed: its memory and its open transactions are lost,
\* the files it wrote (lock, checkpoints) stay.
Kill ==
    /\ opc # "idle"
    /\ CanFault
    /\ faults' = faults + 1
    /\ opc' = "idle"
    /\ wpc' = [f \in Files |-> "idle"]
    /\ LocalsReset
    /\ auditedInRun' = [f \in Files |-> FALSE]
    /\ UNCHANGED <<dbVars, diskVars, run, audit, auditCommits,
                   tailVars, sideVars>>

\* The operator removes the lock file a killed run left behind.
RemoveStaleLock ==
    /\ opc = "idle"
    /\ lock
    /\ lock' = FALSE
    /\ UNCHANGED <<dbVars, content, present, progress, ctlVars, faults, wpc,
                   localVars, auditVars, tailVars, sideVars>>

(***************************************************************************)
(* process_log_file(f): one pool worker per file.                          *)
(***************************************************************************)
\* A faulty loop: a restart resumes one entry past the checkpointed one.
FirstEntryPastCheckpoint(resume) == IF resume = 0 THEN 0 ELSE resume + 1

\* for entry_num, entry_lines in enumerate(read_log_entries(log_file)):
\* the loop starts at the first entry of the file, whatever resume_pos is.
FirstEntry(resume) == 0

RECURSIVE Fill(_, _, _, _, _)
\* The loop body up to the next flush or the end of the file: p entries are
\* read, b is the batch, n is processed, idx the indexes of the built entries.
Fill(entries, p, b, n, idx) ==
    IF Len(b) >= BATCH_SIZE \/ p >= Len(entries)
    THEN [pos |-> p, batch |-> b, processed |-> n, idx |-> idx]
    ELSE LET record == build_record(entries[p + 1])
         IN  IF record = None
             THEN Fill(entries, p + 1, b, n, idx)
             ELSE Fill(entries, p + 1, Append(b, record), n + 1, idx \cup {p})

\* psycopg2 sums the row counts of the executemany: one per upsert.
UpsertRowcount(records) == Len(records)

\* A faulty connection: conn.autocommit = True, every statement is visible
\* as soon as it is executed.
AfterStatementAutocommit(committed, written) == written

\* conn.autocommit = False: what a statement wrote is not visible before the
\* commit.
AfterStatement(committed, written) == committed

\* A faulty handler: the failed audit is logged and processing goes on.
AuditFailureSwallowed == "unlink"

\* except Exception: log and raise, past the cleanup.
AuditFailureNext == "failed_audit"

\* A worker thread takes the next file of the queue and loads its checkpoint.
StartFile(f) ==
    /\ opc = "pool"
    /\ wpc[f] = "queued"
    /\ Cardinality(Running) < MAX_WORKERS
    /\ \A g \in Files : Position(g) < Position(f) => wpc[g] # "queued"
    /\ LET resume == TrackerLoad(progress, f)
       IN  /\ resume_pos' = [resume_pos EXCEPT ![f] = resume]
           /\ pos' = [pos EXCEPT ![f] = FirstEntry(resume)]
    /\ batch' = [batch EXCEPT ![f] = <<>>]
    /\ processed' = [processed EXCEPT ![f] = 0]
    /\ inserted' = [inserted EXCEPT ![f] = 0]
    /\ submitted' = [submitted EXCEPT ![f] = {}]
    /\ lastSaved' = [lastSaved EXCEPT ![f] = 0]
    /\ wpc' = [wpc EXCEPT ![f] = "reading"]
    /\ UNCHANGED <<dbVars, diskVars, ctlVars, faults, auditVars,
                   tailVars, sideVars>>

\* Read entries until the batch is full or the file ends, then open the
\* transaction of bulk_insert_records and execute its first statement.  At
\* the end of the file with an empty batch, go on to the audit.
ReadBatch(f) ==
    /\ wpc[f] = "reading"
    /\ LET r == Fill(Entries(f), pos[f], batch[f], processed[f], {})
       IN  /\ pos' = [pos EXCEPT ![f] = r.pos]
           /\ batch' = [batch EXCEPT ![f] = r.batch]
           /\ processed' = [processed EXCEPT ![f] = r.processed]
           /\ submitted' = [submitted EXCEPT ![f] = @ \cup r.idx]
           /\ IF r.batch = <<>>
              THEN /\ wpc' = [wpc EXCEPT ![f] = "audit"]
                   /\ history' = history
              ELSE /\ wpc' = [wpc EXCEPT ![f] = "hist"]
                   /\ history' = AfterStatement(history,
                                     InsertHistoryMany(history, r.batch))
    /\ UNCHANGED <<latest, diskVars, ctlVars, faults, resume_pos, inserted,
                   lastSaved,
                   auditVars, tailVars, sideVars>>

\* read_log_entries raises, or the connection or the first statement of
\* bulk_insert_records does: process_log_file raises.
ReadFails(f) ==
    /\ wpc[f] = "reading"
    /\ CanFault
    /\ faults' = faults + 1
    /\ \E kind \in {"failed_io", "failed_insert"} :
           wpc' = [wpc EXCEPT ![f] = kind]
    /\ UNCHANGED <<dbVars, diskVars, ctlVars, localVars, auditVars,
                   tailVars, sideVars>>

\* The second statement of bulk_insert_records, the upsert of
\* latest_traces, and conn.commit(): both statements become visible.  A full
\* batch is followed by batch.clear() and tracker.save, the final batch by
\* the audit.
Commit(f) ==
    /\ wpc[f] = "hist"
    /\ history' = InsertHistoryMany(history, batch[f])
    /\ latest' = UpsertLatestBackfillMany(latest, batch[f])
    /\ inserted' = [inserted EXCEPT ![f] = @ + UpsertRowcount(batch[f])]
    /\ wpc' = [wpc EXCEPT ![f] =
                  IF Len(batch[f]) >= BATCH_SIZE THEN "save" ELSE "audit"]
    /\ UNCHANGED <<diskVars, ctlVars, faults, resume_pos, pos, batch,
                   processed, submitted, lastSaved, auditVars, tailVars,
                   sideVars>>

\* A faulty handler: the failure is logged and 0 returned; the caller goes
\* on to clear the batch and save its checkpoint.
CommitFailureSwallowed(kind) == "save"

\* except Exception: log and raise; process_log_file raises in turn, past
\* batch.clear() and tracker.save.
CommitFailureNext(kind) == kind

\* The second statement or the commit raises: the with block of the
\* connection rolls the transaction back and bulk_insert_records raises.
CommitFails(f) ==
    /\ wpc[f] = "hist"
    /\ CanFault
    /\ faults' = faults + 1
    /\ \E kind \in {"failed_upsert", "failed_commit"} :
           wpc' = [wpc EXCEPT ![f] = CommitFailureNext(kind)]
    /\ UNCHANGED <<dbVars, diskVars, ctlVars, localVars, auditVars,
                   tailVars, sideVars>>

\* batch.clear(); tracker.save(log_file, entry_num + 1)
SaveProgress(f) ==
    /\ wpc[f] = "save"
    /\ progress' = TrackerSave(progress, f, pos[f])
    /\ lastSaved' = [lastSaved EXCEPT ![f] = pos[f]]
    /\ batch' = [batch EXCEPT ![f] = <<>>]
    /\ wpc' = [wpc EXCEPT ![f] = "reading"]
    /\ UNCHANGED <<dbVars, content, present, lock, ctlVars, faults,
                   resume_pos, pos, processed, inserted, submitted,
                   auditVars, tailVars, sideVars>>

\* The checkpoint write fails: logged, processing goes on.
SaveFails(f) ==
    /\ wpc[f] = "save"
    /\ CanFault
    /\ faults' = faults + 1
    /\ batch' = [batch EXCEPT ![f] = <<>>]
    /\ wpc' = [wpc EXCEPT ![f] = "reading"]
    /\ UNCHANGED <<dbVars, diskVars, ctlVars, resume_pos, pos, processed,
                   inserted, submitted, lastSaved, auditVars, tailVars,
                   sideVars>>

AuditRow(f, runtime) ==
    [filename |-> f, processed |-> processed[f], inserted |-> inserted[f],
     deduplicated |-> processed[f] - inserted[f],
     runtime_seconds |-> runtime]

\* Record completion: the audit insert and its commit.
Audit(f) ==
    /\ wpc[f] = "audit"
    /\ \E runtime \in Runtimes :
           audit' = InsertAudit(audit, AuditRow(f, runtime))
    /\ auditCommits' = [auditCommits EXCEPT ![f] = @ + 1]
    /\ auditedInRun' = [auditedInRun EXCEPT ![f] = TRUE]
    /\ wpc' = [wpc EXCEPT ![f] = "unlink"]
    /\ UNCHANGED <<dbVars, diskVars, ctlVars, faults, localVars,
                   tailVars, sideVars>>

\* The audit connection, insert or commit raises.
AuditFails(f) ==
    /\ wpc[f] = "audit"
    /\ CanFault
    /\ faults' = faults + 1
    /\ wpc' = [wpc EXCEPT ![f] = AuditFailureNext]
    /\ UNCHANGED <<dbVars, diskVars, ctlVars, localVars, auditVars,
                   tailVars, sideVars>>

\* Cleanup: Path(log_file).unlink()
Unlink(f) ==
    /\ wpc[f] = "unlink"
    /\ present' = [present EXCEPT ![f] = FALSE]
    /\ wpc' = [wpc EXCEPT ![f] = "done"]
    /\ UNCHANGED <<dbVars, content, progress, lock, ctlVars, faults,
                   localVars, auditVars, tailVars, sideVars>>

\* The deletion raises: logged, the file stays.
UnlinkFails(f) ==
    /\ wpc[f] = "unlink"
    /\ CanFault
    /\ faults' = faults + 1
    /\ wpc' = [wpc EXCEPT ![f] = "done"]
    /\ UNCHANGED <<dbVars, diskVars, ctlVars, localVars, auditVars,
                   tailVars, sideVars>>

Worker(f) ==
    \/ StartFile(f)
    \/ ReadBatch(f)
    \/ ReadFails(f)
    \/ Commit(f)
    \/ CommitFails(f)
    \/ SaveProgress(f)
    \/ SaveFails(f)
    \/ Audit(f)
    \/ AuditFails(f)
    \/ Unlink(f)
    \/ UnlinkFails(f)

Next ==
    \/ StartBlocked
    \/ Start
    \/ Discover
    \/ DiscoverFails
    \/ Collect
    \/ Maintenance
    \/ Cleanup
    \/ Kill
    \/ RemoveStaleLock
    \/ \E f \in Files : Worker(f)

Spec == Init /\ [][Next]_vars


(***************************************************************************)
(* The ingestion paths side by side: the backfill, the polling watcher and *)
(* radius_parser write batches of records to the same two tables.          *)
(***************************************************************************)
\* Parsed records of the tail paths and built records of the backfill.
Rec(m, imsi, enodeb, t) ==
    [msisdn |-> m, imsi |-> imsi, enodeb_id |-> enodeb, cell_id |-> 14,
     timestamp |-> t]

RecordPool == {Rec(MA, "i1", 4039, 1), Rec(MA, "i1", 4018, 2), Rec(MB, "i2", 4039, 1)}

IngestBatches ==
    {<<r>> : r \in RecordPool} \cup {<<r, q>> : r, q \in RecordPool}

InitIngest ==
    /\ content = [f \in Files |-> Position(f)]
    /\ present = [f \in Files |-> FALSE]
    /\ history = {}
    /\ latest = {}
    /\ audit = {}
    /\ progress = <<>>
    /\ lock = FALSE
    /\ opc = "idle"
    /\ run = 0
    /\ faults = 0
    /\ wpc = [f \in Files |-> "idle"]
    /\ resume_pos = [f \in Files |-> 0]
    /\ pos = [f \in Files |-> 0]
    /\ batch = [f \in Files |-> <<>>]
    /\ processed = [f \in Files |-> 0]
    /\ inserted = [f \in Files |-> 0]
    /\ submitted = [f \in Files |-> {}]
    /\ lastSaved = [f \in Files |-> 0]
    /\ auditCommits = [f \in Files |-> 0]
    /\ auditedInRun = [f \in Files |-> FALSE]
    /\ TailIdle
    /\ SideIdle

backfillVars == <<diskVars, ctlVars, faults, wpc, localVars, auditVars>>

\* backfill: bulk_insert_records(records), committed.
BackfillBatch(records) ==
    /\ history' = InsertHistoryMany(history, records)
    /\ latest' = UpsertLatestBackfillMany(latest, records)
    /\ lastPath' = "backfill"
    /\ lastBatch' = records
    /\ UNCHANGED <<backfillVars, sideVars, ipc, ibatch>>

\* polling watcher: RadiusWatcher.insert_records(records), committed: the
\* guarded upserts, then the history inserts, in one transaction.
WatcherInsert(records) ==
    /\ latest' = UpsertLatestWatcherMany(latest, records)
    /\ history' = InsertHistoryMany(history, records)
    /\ lastPath' = "watcher"
    /\ lastBatch' = records
    /\ UNCHANGED <<backfillVars, sideVars, ipc, ibatch>>

\* radius_parser.process_file: upsert_latest_traces(batch, conn) commits on
\* its own; a statement the database rejects is rolled back and 0 returned.
ParserUpsert(records) ==
    /\ ipc = "idle"
    /\ IF AffectsRowTwice(records)
       THEN UNCHANGED <<latest, lastPath, lastBatch>>
       ELSE /\ latest' = UpsertLatestParser(latest, records)
            /\ lastPath' = "parser"
            /\ lastBatch' = records
    /\ ipc' = "history"
    /\ ibatch' = records
    /\ UNCHANGED <<backfillVars, sideVars, history>>

\* The upsert raises (connection, statement): rolled back, 0 returned.
ParserUpsertFails(records) ==
    /\ ipc = "idle"
    /\ ipc' = "history"
    /\ ibatch' = records
    /\ UNCHANGED <<backfillVars, sideVars, dbVars, lastPath, lastBatch>>

\* insert_radius_history(batch, conn): the second transaction of the batch.
ParserHistory ==
    /\ ipc = "history"
    /\ history' = InsertHistoryMany(history, ibatch)
    /\ ipc' = "idle"
    /\ ibatch' = <<>>
    /\ UNCHANGED <<backfillVars, sideVars, latest, lastPath, lastBatch>>

\* The failed history insert takes the committed upsert of the batch back.
ParserHistoryFailsUndoing ==
    /\ ipc = "history"
    /\ ipc' = "idle"
    /\ ibatch' = <<>>
    /\ latest' = {l \in latest :
                     \A i \in DOMAIN ibatch : l.msisdn # ibatch[i].msisdn}
    /\ UNCHANGED <<backfillVars, sideVars, history, lastPath, lastBatch>>

\* The history insert raises: rolled back, 0 returned.
ParserHistoryFails ==
    /\ ipc = "history"
    /\ ipc' = "idle"
    /\ ibatch' = <<>>
    /\ UNCHANGED <<backfillVars, sideVars, dbVars, lastPath, lastBatch>>

NextIngest ==
    \/ \E records \in IngestBatches : BackfillBatch(records)
    \/ \E records \in IngestBatches : WatcherInsert(records)
    \/ \E records \in IngestBatches : ParserUpsert(records)
    \/ \E records \in IngestBatches : ParserUpsertFails(records)
    \/ ParserHistory
    \/ ParserHistoryFails

SpecIngest == InitIngest /\ [][NextIngest]_vars


(***************************************************************************)
(* The lock marker: two invocations of backfill() side by side.  The body  *)
(* of a run is reduced to its stages; the lock file and the checkpoint     *)
(* file are the ones of Spec.                                              *)
(***************************************************************************)
InitLock ==
    /\ content = [f \in Files |-> Position(f)]
    /\ present = [f \in Files |-> FALSE]
    /\ history = {}
    /\ latest = {}
    /\ audit = {}
    /\ progress \in {<<>>, TrackerSave(<<>>, "a1", 2)}
    /\ lock = FALSE
    /\ opc = "idle"
    /\ run = 0
    /\ faults = 0
    /\ wpc = [f \in Files |-> "idle"]
    /\ resume_pos = [f \in Files |-> 0]
    /\ pos = [f \in Files |-> 0]
    /\ batch = [f \in Files |-> <<>>]
    /\ processed = [f \in Files |-> 0]
    /\ inserted = [f \in Files |-> 0]
    /\ submitted = [f \in Files |-> {}]
    /\ lastSaved = [f \in Files |-> 0]
    /\ auditCommits = [f \in Files |-> 0]
    /\ auditedInRun = [f \in Files |-> FALSE]
    /\ TailIdle
    /\ SideIdle

\* What the lock specification leaves alone.
lockRest ==
    <<dbVars, content, present, ctlVars, wpc, localVars, auditVars, tailVars,
      saveVars, decodeVars, blockVars, followVars, splitVars, liveVars,
      poolVars, loginVars, incrVars>>

\* The stages of backfill() between the creation of the lock file and its
\* removal.
Holding == {"init", "pool", "maint", "cleanup"}

\* if Path(Config.LOCK_FILE).exists(): return
LockCheck(exists) == IF exists THEN "idle" ELSE "checked"

\* backfill() is invoked and tests the lock file.
Invoke(i) ==
    /\ bpc[i] = "idle"
    /\ bruns[i] < MaxRuns
    /\ bruns' = [bruns EXCEPT ![i] = @ + 1]
    /\ bpc' = [bpc EXCEPT ![i] = LockCheck(lock)]
    /\ UNCHANGED <<lockRest, progress, lock, faults>>

\* with open(Config.LOCK_FILE, "w"): the file is created, or truncated when
\* it is already there.
CreateLock(i) ==
    /\ bpc[i] = "checked"
    /\ lock' = TRUE
    /\ bpc' = [bpc EXCEPT ![i] = "init"]
    /\ UNCHANGED <<lockRest, progress, bruns, faults>>

\* The creation raises: logged, backfill() returns.
CreateLockFails(i) ==
    /\ bpc[i] = "checked"
    /\ CanFault
    /\ faults' = faults + 1
    /\ bpc' = [bpc EXCEPT ![i] = "idle"]
    /\ UNCHANGED <<lockRest, progress, lock, bruns>>

\* One stage of the try block is over: tables and discovery, the pools,
\* the maintenance.  Without a file to process the run returns from the
\* discovery, through the finally block.
Advance(i) ==
    /\ bpc[i] \in {"init", "pool", "maint"}
    /\ \E next \in IF bpc[i] = "init" THEN {"pool", "cleanup"}
                   ELSE IF bpc[i] = "pool" THEN {"maint"}
                   ELSE {"cleanup"} :
           bpc' = [bpc EXCEPT ![i] = next]
    /\ UNCHANGED <<lockRest, progress, lock, bruns, faults>>

\* finally: Path(Config.LOCK_FILE).unlink(); ProgressTracker().clear().
\* When the file is gone already the unlink raises, which is logged, and
\* the clear is skipped.
Finally(i) ==
    /\ bpc[i] = "cleanup"
    /\ IF lock
       THEN /\ lock' = FALSE
            /\ progress' = TrackerClear(progress)
       ELSE UNCHANGED <<lock, progress>>
    /\ bpc' = [bpc EXCEPT ![i] = "idle"]
    /\ UNCHANGED <<lockRest, bruns, faults>>

NextLock ==
    \E i \in Invocations :
        \/ Invoke(i)
        \/ CreateLock(i)
        \/ CreateLockFails(i)
        \/ Advance(i)
        \/ Finally(i)

SpecLock == InitLock /\ [][NextLock]_vars

(***************************************************************************)
(* ProgressTracker.save, statement by statement, for the workers of one    *)
(* pool.  pos[f] is the position the worker of f saves next.               *)
(***************************************************************************)
InitSave ==
    /\ content = [f \in Files |-> Position(f)]
    /\ present = [f \in Files |-> TRUE]
    /\ history = {}
    /\ latest = {}
    /\ audit = {}
    /\ progress = <<>>
    /\ lock = TRUE
    /\ opc = "pool"
    /\ run = 1
    /\ faults = 0
    /\ wpc = [f \in Files |-> "save"]
    /\ resume_pos = [f \in Files |-> 0]
    /\ pos \in [Files -> 1..2]
    /\ batch = [f \in Files |-> <<>>]
    /\ processed = [f \in Files |-> 0]
    /\ inserted = [f \in Files |-> 0]
    /\ submitted = [f \in Files |-> {}]
    /\ lastSaved = [f \in Files |-> 0]
    /\ auditCommits = [f \in Files |-> 0]
    /\ auditedInRun = [f \in Files |-> FALSE]
    /\ TailIdle
    /\ LockIdle
    /\ SaveIdle
    /\ DecodeIdle
    /\ BlockIdle
    /\ FollowIdle
    /\ SplitIdle
    /\ LiveIdle
    /\ PoolIdle
    /\ LoginIdle
    /\ IncrIdle

\* What the save specification leaves alone.
saveRest ==
    <<dbVars, content, present, lock, ctlVars, wpc, resume_pos, batch,
      processed, inserted, submitted, lastSaved, auditVars, tailVars,
      lockVars, decodeVars, blockVars, followVars, splitVars, liveVars,
      poolVars, loginVars, incrVars>>

\* with self.lock: the worker acquires the lock of its tracker.
SaveEnter(f) ==
    /\ spc[f] = "out"
    /\ pos[f] <= MaxSaves + 1
    /\ ~tlock[TrackerOf(f)]
    /\ tlock' = [tlock EXCEPT ![TrackerOf(f)] = TRUE]
    /\ spc' = [spc EXCEPT ![f] = "locked"]
    /\ UNCHANGED <<saveRest, progress, pos, faults>>

\* with self.file.open("a") as f: the checkpoint file is open for append.
SaveOpen(f) ==
    /\ spc[f] = "locked"
    /\ spc' = [spc EXCEPT ![f] = "appending"]
    /\ UNCHANGED <<saveRest, progress, pos, faults, tlock>>

\* f.write(f"{filename}|{position}\n"), the file is closed and the lock
\* released; the worker goes on to its next batch.
SaveWrite(f) ==
    /\ spc[f] = "appending"
    /\ progress' = TrackerSave(progress, f, pos[f])
    /\ pos' = [pos EXCEPT ![f] = @ + 1]
    /\ tlock' = [tlock EXCEPT ![TrackerOf(f)] = FALSE]
    /\ spc' = [spc EXCEPT ![f] = "out"]
    /\ UNCHANGED <<saveRest, faults>>

\* The open or the write raises: logged inside the lock, which is released.
SaveRaises(f) ==
    /\ spc[f] \in {"locked", "appending"}
    /\ CanFault
    /\ faults' = faults + 1
    /\ pos' = [pos EXCEPT ![f] = @ + 1]
    /\ tlock' = [tlock EXCEPT ![TrackerOf(f)] = FALSE]
    /\ spc' = [spc EXCEPT ![f] = "out"]
    /\ UNCHANGED <<saveRest, progress>>

NextSave ==
    \E f \in Files :
        \/ SaveEnter(f)
        \/ SaveOpen(f)
        \/ SaveWrite(f)
        \/ SaveRaises(f)

SpecSave == InitSave /\ [][NextSave]_vars

(***************************************************************************)
(* The location decoders, applied to one location code.                    *)
(***************************************************************************)
\* Hex characters of the generated codes.  The cell identifier is kept
\* below 2^31: the leading character of its 8 is at most 7.
HexDigits == {0, 7}

\* The codes of test_decode.py.
Samples ==
    { <<8, 2, 3, 7, 0, 8, 4, 0, 1, 11, 5, 9, 3,
         7, 0, 8, 4, 0, 0, 0, 0, 15, 11, 2, 0, 13>>,
      <<8, 2, 3, 7, 0, 8, 4, 0, 1, 11, 5, 9, 3,
         7, 0, 8, 4, 0, 0, 0, 1, 2, 2, 9, 0, 11>>,
      <<8, 2, 3, 7, 0, 8, 4, 0, 1, 11, 5, 9, 3,
         7, 0, 8, 4, 0, 0, 0, 1, 2, 2, 2, 0, 12>>,
      <<8, 2, 3, 7, 0, 8, 4, 0, 1, 11, 5, 9, 3,
         7, 0, 8, 4, 0, 0, 0, 0, 15, 12, 7, 0, 14>>,
      <<8, 2, 3, 7, 0, 8, 4, 0, 1, 11, 5, 9, 3,
         7, 0, 8, 4, 0, 0, 0, 0, 15, 15, 5, 0, 12>> }

\* 0x823708401b59370840000fc70e
Literal ==
    Hex(TRUE,
        <<8, 2, 3, 7, 0, 8, 4, 0, 1, 11, 5, 9, 3,
          7, 0, 8, 4, 0, 0, 0, 0, 15, 12, 7, 0, 14>>)

HexInputs ==
    {Hex(p, d) : p \in BOOLEAN,
                 d \in UNION {[1..n -> HexDigits] : n \in 0..MaxHexLen}}
        \cup {Hex(TRUE, d) : d \in Samples}

InitDecode ==
    /\ content = [f \in Files |-> Position(f)]
    /\ present = [f \in Files |-> FALSE]
    /\ history = {}
    /\ latest = {}
    /\ audit = {}
    /\ progress = <<>>
    /\ lock = FALSE
    /\ opc = "idle"
    /\ run = 0
    /\ faults = 0
    /\ wpc = [f \in Files |-> "idle"]
    /\ resume_pos = [f \in Files |-> 0]
    /\ pos = [f \in Files |-> 0]
    /\ batch = [f \in Files |-> <<>>]
    /\ processed = [f \in Files |-> 0]
    /\ inserted = [f \in Files |-> 0]
    /\ submitted = [f \in Files |-> {}]
    /\ lastSaved = [f \in Files |-> 0]
    /\ auditCommits = [f \in Files |-> 0]
    /\ auditedInRun = [f \in Files |-> FALSE]
    /\ TailIdle
    /\ LockIdle
    /\ SaveIdle
    /\ uin \in HexInputs
    /\ dres = [d \in Decoders |-> Pending]
    /\ BlockIdle
    /\ FollowIdle
    /\ SplitIdle
    /\ LiveIdle
    /\ PoolIdle
    /\ LoginIdle
    /\ IncrIdle

\* What the decoder specification leaves alone.
decodeRest ==
    <<dbVars, diskVars, ctlVars, faults, wpc, localVars, auditVars, tailVars,
      lockVars, saveVars, blockVars, followVars, splitVars, liveVars,
      poolVars, loginVars, incrVars>>

\* decode_enodeb_cellid(uli_hex)
ApplyDecodeEnodebCellid ==
    /\ dres["decode_enodeb_cellid"] = Pending
    /\ dres' = [dres EXCEPT !["decode_enodeb_cellid"] =
                   decode_enodeb_cellid(uin)]
    /\ UNCHANGED <<decodeRest, uin>>

\* decode_eci(location_hex)
ApplyDecodeEci ==
    /\ dres["decode_eci"] = Pending
    /\ dres' = [dres EXCEPT !["decode_eci"] = decode_eci(uin)]
    /\ UNCHANGED <<decodeRest, uin>>

\* parse_radius_record over a block with this location code, a subscriber
\* and a timestamp.
ApplyParseRadiusRecord ==
    /\ dres["parse_radius_record"] = Pending
    /\ dres' = [dres EXCEPT !["parse_radius_record"] =
                   parse_radius_record(Entry(MA, "i1", uin, Ts(1)))]
    /\ UNCHANGED <<decodeRest, uin>>

NextDecode ==
    \/ ApplyDecodeEnodebCellid
    \/ ApplyDecodeEci
    \/ ApplyParseRadiusRecord

SpecDecode == InitDecode /\ [][NextDecode]_vars

(***************************************************************************)
(* One block of a detail file, handled by each ingestion path in turn:     *)
(* the backfill, radius_parser.process_file and the polling watcher.       *)
(***************************************************************************)
\* The wall clock of a write: datetime.now(), later than any event.
Clock == {8, 9}

BlockInputs ==
    {Block(cs, "i1", uli, ts, epoch) :
        cs \in {MA, ShortMsisdn, ""},
        uli \in {Hex(TRUE, ULI1), Hex(TRUE, ULIShort), NoLoc},
        ts \in {Ts(1), BadTs, NoTs},
        epoch \in {Ts(2), BadTs, NoTs}}

InitBlock ==
    /\ content = [f \in Files |-> Position(f)]
    /\ present = [f \in Files |-> FALSE]
    /\ history = {}
    /\ latest = {}
    /\ audit = {}
    /\ progress = <<>>
    /\ lock = FALSE
    /\ opc = "idle"
    /\ run = 0
    /\ faults = 0
    /\ wpc = [f \in Files |-> "idle"]
    /\ resume_pos = [f \in Files |-> 0]
    /\ pos = [f \in Files |-> 0]
    /\ batch = [f \in Files |-> <<>>]
    /\ processed = [f \in Files |-> 0]
    /\ inserted = [f \in Files |-> 0]
    /\ submitted = [f \in Files |-> {}]
    /\ lastSaved = [f \in Files |-> 0]
    /\ auditCommits = [f \in Files |-> 0]
    /\ auditedInRun = [f \in Files |-> FALSE]
    /\ TailIdle
    /\ LockIdle
    /\ SaveIdle
    /\ DecodeIdle
    /\ din \in BlockInputs
    /\ ddone = {}
    /\ FollowIdle
    /\ SplitIdle
    /\ LiveIdle
    /\ PoolIdle
    /\ LoginIdle
    /\ IncrIdle

\* What the block specification leaves alone.
blockRest ==
    <<audit, auditCommits, auditedInRun, diskVars, ctlVars, faults, wpc,
      localVars, tailVars, lockVars, saveVars, decodeVars, followVars,
      splitVars, liveVars, poolVars, loginVars, incrVars>>

\* parse_entry: the attributes of the block as build_record reads them.
BackfillView(b) ==
    Entry(b.cs, b.imsi, IF b.uli = NoLoc THEN <<>> ELSE b.uli.digits, b.ts)

\* The attributes of the block as parse_radius_record reads them.
ParserView(b) == Entry(b.cs, b.imsi, b.uli, b.epoch)

\* r.get('timestamp', datetime.now()) in the data tuples of the tail paths.
WrittenRecord(rec, now) ==
    [msisdn |-> rec.msisdn, imsi |-> rec.imsi, enodeb_id |-> rec.enodeb_id,
     cell_id |-> rec.cell_id,
     timestamp |-> IF rec.timestamp.given THEN rec.timestamp.t ELSE now]

\* process_log_file over the block: build_record, then bulk_insert_records.
BackfillBlock ==
    /\ "backfill" \notin ddone
    /\ ddone' = ddone \cup {"backfill"}
    /\ LET record == build_record(BackfillView(din))
       IN  IF record = None
           THEN UNCHANGED dbVars
           ELSE /\ history' = InsertHistoryMany(history, <<record>>)
                /\ latest' = UpsertLatestBackfillMany(latest, <<record>>)
    /\ UNCHANGED <<blockRest, din>>

\* radius_parser.process_file over the block: parse_radius_record, then
\* upsert_latest_traces and insert_radius_history.
ParserBlock ==
    /\ "parser" \notin ddone
    /\ ddone' = ddone \cup {"parser"}
    /\ LET parsed == parse_radius_record(ParserView(din))
       IN  IF parsed = None
           THEN UNCHANGED dbVars
           ELSE \E now \in Clock :
                    LET r == WrittenRecord(parsed, now)
                    IN  /\ latest' = UpsertLatestParser(latest, <<r>>)
                        /\ history' = InsertHistoryMany(history, <<r>>)
    /\ UNCHANGED <<blockRest, din>>

\* RadiusWatcher.process_file over the block, then insert_records.
WatcherBlock ==
    /\ "watcher" \notin ddone
    /\ ddone' = ddone \cup {"watcher"}
    /\ LET parsed == parse_radius_record(ParserView(din))
       IN  IF parsed = None
           THEN UNCHANGED dbVars
           ELSE \E now \in Clock :
                    LET r == WrittenRecord(parsed, now)
                    IN  /\ latest' = UpsertLatestWatcherMany(latest, <<r>>)
                        /\ history' = InsertHistoryMany(history, <<r>>)
    /\ UNCHANGED <<blockRest, din>>

NextBlock ==
    \/ BackfillBlock
    \/ ParserBlock
    \/ WatcherBlock

SpecBlock == InitBlock /\ [][NextBlock]_vars

(***************************************************************************)
(* Properties of the backfill (under Spec).                                *)
(***************************************************************************)
Completed == {"audit", "unlink", "done"}

RECURSIVE BuildAll(_)
\* The records of a file, in file order.
BuildAll(entries) ==
    IF entries = <<>> THEN <<>>
    ELSE LET record == build_record(Head(entries))
         IN  IF record = None THEN BuildAll(Tail(entries))
             ELSE <<record>> \o BuildAll(Tail(entries))

\* radius_matches after one uninterrupted pass over file f alone.
Uninterrupted(f) == InsertHistoryMany({}, BuildAll(Entries(f)))

\* f is the only file the directory ever held.
OnlyFile(f) ==
    \A g \in Files \ {f} : ~present[g] /\ auditCommits[g] = 0

\* C1: after a restart that loaded a checkpoint, no entry whose index is
\* below the loaded position is built into a record and handed to
\* bulk_insert_records again.
C1_SkipsCheckpointedEntries ==
    \A f \in Files : \A i \in submitted[f] : i >= resume_pos[f]

\* C2: whenever the processing of a file has flushed its last batch, after
\* any number of kills and restarts at any point, radius_matches holds the
\* rows of an uninterrupted pass over the file: all of them, only rows of
\* such passes, and exactly them when it is the only file.
C2_ResumeEquivalence ==
    /\ history \subseteq UNION {Uninterrupted(f) : f \in Files}
    /\ \A f \in Files :
           wpc[f] \in Completed =>
               /\ Uninterrupted(f) \subseteq history
               /\ OnlyFile(f) => history = Uninterrupted(f)

\* A restarted run loaded a checkpoint of f and flushed f's last batch.
C2_Witness ==
    \E f \in Files :
        /\ wpc[f] \in Completed
        /\ resume_pos[f] > 0
        /\ OnlyFile(f)
        /\ run = 2

\* A step in which process_log_file(f) commits a batch.
CommitStep(f) == wpc[f] = "hist" /\ wpc'[f] \in {"save", "audit"}

\* C3: no step changes or removes a row of radius_matches, and once a file
\* has been ingested to its end, the commits of a further ingestion of it
\* leave radius_matches as it is.
C3_HistoryIdempotent ==
    [][/\ \A h \in history : h \in history'
       /\ \A f \in Files :
              (auditCommits[f] >= 1 /\ CommitStep(f)) => history' = history]_vars

\* A second ingestion of an already audited file has committed its batches.
C3_Witness ==
    \E f \in Files :
        /\ auditCommits[f] >= 1
        /\ ~auditedInRun[f]
        /\ wpc[f] = "audit"
        /\ processed[f] > 0

AuditRowsOf(f) == {a \in audit : a.filename = f}

C5_DeleteAfterAudit ==
    /\ [][\A f \in Files :
              (present[f] /\ ~present'[f]) =>
                  (auditedInRun[f] /\ AuditRowsOf(f) # {})]_vars
    /\ [](\A f \in Files : wpc[f] = "failed_audit" => present[f])

\* The audit write of a file failed.
C5_Witness ==
    \E f \in Files : wpc[f] = "failed_audit" /\ ~auditedInRun[f] /\ present[f]

\* C6: a file whose processing raised is neither audited nor deleted in
\* that run, the run goes on while any other file is queued or in progress,
\* and it is past the pool only when every file is in a terminal state.
C6_FailureIsolation ==
    /\ \A f \in Files : wpc[f] \in Failed => present[f] /\ ~auditedInRun[f]
    /\ \A g \in Files : wpc[g] \in Active \cup {"queued"} => opc = "pool"
    /\ opc \in {"maint", "cleanup"} =>
           \A g \in Files : wpc[g] \in Terminal \cup {"idle"}

\* One file failed while the other was still in progress.
C6_Witness ==
    \E f, g \in Files : wpc[f] \in Failed /\ wpc[g] \in Active

\* latest_traces after a1 is processed to its end, then a2.
SequentialLatest ==
    UpsertLatestBackfillMany(
        UpsertLatestBackfillMany({}, BuildAll(Entries("a1"))),
        BuildAll(Entries("a2")))

\* C7: when both files were processed concurrently to their end by one run
\* without a fault, latest_traces is the same in every interleaving of the
\* workers' commits: it is what processing a1, then a2, leaves.
C7_DeterministicLatest ==
    (run = 1 /\ faults = 0 /\ \A f \in Files : wpc[f] = "done") =>
        latest = SequentialLatest

\* C8: no step lowers the timestamp of a subscriber's latest_traces row.
C8_MonotonicLatest ==
    [][\A l \in latest :
           /\ HasLatest(latest', l.msisdn)
           /\ GetLatest(latest', l.msisdn).timestamp >= l.timestamp]_vars

\* C9: every row visible in radius_matches belongs to a batch whose upserts
\* of latest_traces are visible too, whether the batch was committed, is in
\* its transaction, or failed at the second statement or at the commit.
C9_AtomicBatch ==
    \A h \in history : HasLatest(latest, h.msisdn)

\* A batch with a record new to radius_matches failed at its second
\* statement or at its commit.
C9_Witness ==
    \E f \in Files :
        /\ wpc[f] \in {"failed_upsert", "failed_commit"}
        /\ \E i \in 1..Len(batch[f]) : HistoryRow(batch[f][i]) \notin history

(***************************************************************************)
(* Properties of the ingestion paths (under SpecIngest).                   *)
(***************************************************************************)
PathTag(path) == IF path = "backfill" THEN "backfill" ELSE "radius"

\* C10 as stated: after a latest-state write of the backfill or of the
\* polling watcher, the row of every subscriber of the batch carries that
\* path's tag.
C10_UnconditionalSourceTag ==
    lastPath \in {"backfill", "watcher"} =>
        \A i \in 1..Len(lastBatch) :
            /\ HasLatest(latest, lastBatch[i].msisdn)
            /\ GetLatest(latest, lastBatch[i].msisdn).source = PathTag(lastPath)

\* A record of the watcher's batch replaces the row of subscriber m.
WatcherReplaces(tbl, records, m) ==
    \/ ~HasLatest(tbl, m)
    \/ \E i \in 1..Len(records) :
           /\ records[i].msisdn = m
           /\ GetLatest(tbl, m).timestamp < records[i].timestamp

\* C10 amended: a committed write of the backfill leaves 'backfill' on the
\* row of every subscriber of the batch, whatever it held; a committed write
\* of the polling watcher leaves 'radius' on a row it inserts or whose
\* timestamp is older than a record of the batch, and leaves any other row,
\* tag included, as it was.
C10_SourceTagPolicy ==
    [][\A records \in IngestBatches :
           /\ BackfillBatch(records) =>
                  \A i \in 1..Len(records) :
                      /\ HasLatest(latest', records[i].msisdn)
                      /\ GetLatest(latest', records[i].msisdn).source = "backfill"
           /\ WatcherInsert(records) =>
                  \A i \in 1..Len(records) :
                      LET m == records[i].msisdn
                      IN  /\ HasLatest(latest', m)
                          /\ IF WatcherReplaces(latest, records, m)
                             THEN GetLatest(latest', m).source = "radius"
                             ELSE GetLatest(latest', m) = GetLatest(latest, m)]_vars

\* The polling watcher committed a batch with a record of a subscriber whose
\* row holds the backfill's tag and a newer timestamp.
C10_Witness ==
    /\ lastPath = "watcher"
    /\ \E i \in 1..Len(lastBatch) :
           /\ HasLatest(latest, lastBatch[i].msisdn)
           /\ GetLatest(latest, lastBatch[i].msisdn).source = "backfill"
           /\ GetLatest(latest, lastBatch[i].msisdn).timestamp
                  > lastBatch[i].timestamp

\* C13: the finally block of a run in which the processing of some file
\* raised leaves the stored checkpoints as they are.
C13_ClearOnlyAfterSuccess ==
    [][(/\ opc = "cleanup"
        /\ opc' = "idle"
        /\ \E f \in Files : wpc[f] \in Failed) => progress' = progress]_vars

RECURSIVE BuiltUpTo(_, _)
\* The records built from the first n entries of a file.
BuiltUpTo(entries, n) ==
    IF n = 0 THEN <<>>
    ELSE LET record == build_record(entries[n])
         IN  IF record = None THEN BuiltUpTo(entries, n - 1)
             ELSE Append(BuiltUpTo(entries, n - 1), record)

\* The history rows of the first n entries of file f.
DurableUpTo(f, n) == InsertHistoryMany({}, BuiltUpTo(Entries(f), n))

\* A step in which the worker of f appends a checkpoint.
SaveStep(f) ==
    wpc[f] = "save" /\ wpc'[f] = "reading" /\ progress' # progress

\* C14: every stored checkpoint f|n has the records of f's first n entries
\* committed; a checkpoint is appended only by a worker whose batch was
\* committed, and at a position above the one it saved before.
C14_CheckpointBehindData ==
    /\ [](\A i \in 1..Len(progress) :
              DurableUpTo(progress[i].filename, progress[i].position)
                  \subseteq history)
    /\ [][\A f \in Files :
              SaveStep(f) =>
                  /\ progress' = Append(progress,
                                     [filename |-> f, position |-> pos[f]])
                  /\ pos[f] > lastSaved[f]
                  /\ DurableUpTo(f, pos[f]) \subseteq history]_vars

\* A worker saved a second checkpoint of its file, after its second batch.
C14_Witness ==
    \E f \in Files :
        /\ lastSaved[f] > 2
        /\ \E i, j \in 1..Len(progress) :
               /\ i < j
               /\ progress[i].filename = f
               /\ progress[j].filename = f
               /\ progress[j].position = lastSaved[f]

\* An entry without Calling-Station-Id, 3GPP-User-Location-Info or
\* Event-Timestamp.
MissingField(entry) ==
    entry.cs = "" \/ entry.uli = <<>> \/ entry.ts.kind = "absent"

\* The entries of f read so far that miss a required attribute.
MissingRead(f) ==
    {i \in 1..pos[f] : MissingField(Entries(f)[i])}

\* C15: an entry missing a required attribute builds no record, and each
\* such entry read so far is counted in processed and not in inserted.
C15_RejectionAccounting ==
    \A f \in Files :
        LET built == Len(BuiltUpTo(Entries(f), pos[f]))
        IN  /\ \A i \in MissingRead(f) : build_record(Entries(f)[i]) = None
            /\ processed[f] >= built + Cardinality(MissingRead(f))
            /\ inserted[f] <= built

(***************************************************************************)
(* Properties of the lock marker (under SpecLock).                         *)
(***************************************************************************)
\* C11: at most one invocation of backfill() is between the creation of the
\* lock file and its removal.
C11_SingleInstance ==
    Cardinality({i \in Invocations : bpc[i] \in Holding}) <= 1

(***************************************************************************)
(* Properties of the checkpoint store (under SpecSave).                    *)
(***************************************************************************)
\* C12: no two workers are inside the append of ProgressTracker.save at the
\* same time.
C12_CheckpointMutex ==
    \A f, g \in Files :
        (f # g /\ spc[f] = "appending") => spc[g] # "appending"

(***************************************************************************)
(* Properties of the location decoders (under SpecDecode).                 *)
(***************************************************************************)
LocationDecoders == {"decode_enodeb_cellid", "decode_eci"}

\* C17: for a code of at least 8 hex characters, each location decoder
\* returns the cell identifier of the last 8 characters shifted right by 8
\* as the station and its low 8 bits as the sector; so the decoders agree.
C17_DecodeFormula ==
    Len(uin.digits) >= 8 =>
        LET eci == HexValue(Last8(uin.digits))
        IN  \A d \in LocationDecoders :
                dres[d] # Pending =>
                    /\ dres[d] \notin {None, Raised}
                    /\ dres[d].enodeb_id = eci \div 256
                    /\ dres[d].cell_id = eci % 256

\* C18: for a code of fewer than 8 hex characters, each location decoder
\* reports a failure without raising, and parse_radius_record builds no
\* record.
C18_ShortCodeFails ==
    Len(uin.digits) < 8 =>
        \A d \in Decoders : dres[d] # Pending => dres[d] = None

\* C19 as stated: the literal code decodes to cell identifier 1033742,
\* station 4038, sector 14.
C19_LiteralAsStated ==
    uin = Literal =>
        /\ dres["decode_enodeb_cellid"] # Pending =>
               dres["decode_enodeb_cellid"] = [enodeb_id |-> 4038, cell_id |-> 14]
        /\ dres["decode_eci"] # Pending =>
               dres["decode_eci"] =
                   [enodeb_id |-> 4038, cell_id |-> 14, eci |-> 1033742]

\* C19 amended: the last 8 characters of the literal code are 000fc70e, the
\* cell identifier is 1033998, the station 4039 and the sector 14.
C19_LiteralDecode ==
    uin = Literal =>
        /\ Last8(uin.digits) = <<0, 0, 0, 15, 12, 7, 0, 14>>
        /\ dres["decode_enodeb_cellid"] # Pending =>
               dres["decode_enodeb_cellid"] = [enodeb_id |-> 4039, cell_id |-> 14]
        /\ dres["decode_eci"] # Pending =>
               dres["decode_eci"] =
                   [enodeb_id |-> 4039, cell_id |-> 14, eci |-> 1033998]

\* Both decoders have returned for the literal code.
C19_Witness ==
    /\ uin = Literal
    /\ dres["decode_enodeb_cellid"] # Pending
    /\ dres["decode_eci"] # Pending

(***************************************************************************)
(* Properties of the handling of one block (under SpecBlock).              *)
(***************************************************************************)
\* The timestamps an ingestion path can parse from the block.
TimesOf(b) ==
    {x.t : x \in {y \in {b.ts, b.epoch} : y.kind = "utc"}}

\* C16: a row of radius_matches or latest_traces comes from a block with a
\* subscriber of at least 10 characters, a location code that decodes, and
\* a timestamp that is parsed from the block.
C16_RecordValidity ==
    \A row \in history \cup {HistoryRow(l) : l \in latest} :
        /\ Len(din.cs) >= 10
        /\ din.uli # NoLoc
        /\ Len(din.uli.digits) >= 8
        /\ row.timestamp \in TimesOf(din)

(***************************************************************************)
(* The front-ends that follow a growing detail file: RadiusWatcher's       *)
(* polling process_file, RadiusFileHandler's process_new_lines,            *)
(* follow_lines and tail_and_process.  One of them follows the file of a   *)
(* behaviour.  The file is written block after block: a header line (the   *)
(* date, no leading whitespace), the indented attribute lines and a blank  *)
(* line.  Each front-end starts at the end of the file as it finds it;     *)
(* the lines of the model are those written after that.                    *)
(***************************************************************************)
\* Blocks written to the detail file in one behaviour.
MaxBlocks == 2

FrontEnds ==
    {"process_file", "process_new_lines", "follow_lines", "tail_and_process"}

\* The lines of one block: the header, Calling-Station-Id (n = 1),
\* 3GPP-User-Location-Info (n = 2) and the blank line.
LinesPerBlock == 4

\* The i-th line written to the detail file.
LineAt(i) ==
    LET k == ((i - 1) \div LinesPerBlock) + 1
        r == (i - 1) % LinesPerBlock
    IN  [kind |-> IF r = 0 THEN "header"
                  ELSE IF r = LinesPerBlock - 1 THEN "blank" ELSE "attr",
         block |-> k,
         n |-> IF r = LinesPerBlock - 1 THEN 0 ELSE r]

\* The attribute n as the lines of a buffer give it: the block whose line
\* is the last one that sets it, 0 when no line does.
RECURSIVE AttrOf(_, _)
AttrOf(lines, n) ==
    IF lines = <<>> THEN 0
    ELSE LET l == lines[Len(lines)]
         IN  IF l.kind = "attr" /\ l.n = n THEN l.block
             ELSE AttrOf(SubSeq(lines, 1, Len(lines) - 1), n)

\* The record the parsers make of the lines collected for one block:
\* None unless the subscriber and the location are both among them.
ParseLines(lines) ==
    IF AttrOf(lines, 1) = 0 \/ AttrOf(lines, 2) = 0 THEN None
    ELSE [msisdn |-> AttrOf(lines, 1), location |-> AttrOf(lines, 2)]

\* The record of the whole block k.
WholeBlock(k) == [msisdn |-> k, location |-> k]

\* for line in f: a line without leading whitespace starts a record, the
\* lines collected before it are parsed; any other line is collected.
RECURSIVE ScanLines(_, _, _)
ScanLines(lines, cur, out) ==
    IF lines = <<>> THEN [buffer |-> cur, records |-> out]
    ELSE LET l == Head(lines)
         IN  IF l.kind = "header"
             THEN ScanLines(Tail(lines), <<>>,
                            IF cur # <<>> /\ ParseLines(cur) # None
                            THEN Append(out, ParseLines(cur)) ELSE out)
             ELSE ScanLines(Tail(lines), Append(cur, l), out)

\* Rotations of the detail file in one behaviour.
MaxRotations == 1

\* The offset without the rotation check.
StartOffsetKept(current_size, remembered) == remembered

\* if current_size < last_pos: last_pos = 0
StartOffset(current_size, remembered) ==
    IF current_size < remembered THEN 0 ELSE remembered

\* The lines of the detail file after the offset start.
LinesFrom(start) == SubSeq(detail, start + 1, Len(detail))

\* The lines of the detail file after the position of the front-end.
NewLines == LinesFrom(file_positions)

InitFollow ==
    /\ history = {}
    /\ latest = {}
    /\ audit = {}
    /\ content = [f \in Files |-> Position(f)]
    /\ present = [f \in Files |-> FALSE]
    /\ progress = <<>>
    /\ lock = FALSE
    /\ opc = "idle"
    /\ run = 0
    /\ faults = 0
    /\ wpc = [f \in Files |-> "idle"]
    /\ resume_pos = [f \in Files |-> 0]
    /\ pos = [f \in Files |-> 0]
    /\ batch = [f \in Files |-> <<>>]
    /\ processed = [f \in Files |-> 0]
    /\ inserted = [f \in Files |-> 0]
    /\ submitted = [f \in Files |-> {}]
    /\ lastSaved = [f \in Files |-> 0]
    /\ auditCommits = [f \in Files |-> 0]
    /\ auditedInRun = [f \in Files |-> FALSE]
    /\ TailIdle
    /\ LockIdle
    /\ SaveIdle
    /\ DecodeIdle
    /\ BlockIdle
    /\ frontend \in FrontEnds
    /\ detail = <<>>
    /\ file_positions = 0
    /\ buffer = <<>>
    /\ all_records = <<>>
    /\ last_pos = 0
    /\ rotations = 0
    /\ SplitIdle
    /\ LiveIdle
    /\ PoolIdle
    /\ LoginIdle
    /\ IncrIdle

\* What the follower specification leaves alone.
followRest ==
    <<dbVars, diskVars, ctlVars, faults, wpc, localVars, auditVars, tailVars,
      lockVars, saveVars, decodeVars, blockVars, splitVars, liveVars,
      poolVars, loginVars, incrVars>>

\* The accounting server appends the next line to the detail file.
WriteDetail ==
    /\ Len(detail) < MaxBlocks * LinesPerBlock
    /\ detail' = Append(detail, LineAt(Len(detail) + 1))
    /\ UNCHANGED <<frontend, file_positions, buffer, all_records, last_pos,
                   rotations, followRest>>

\* The detail file is rotated: the path now names a new, empty file.
Rotate ==
    /\ rotations < MaxRotations
    /\ detail # <<>>
    /\ detail' = <<>>
    /\ rotations' = rotations + 1
    /\ UNCHANGED <<frontend, file_positions, buffer, all_records, last_pos,
                   followRest>>

\* RadiusWatcher.process_file: one poll.  current_record is a local of the
\* call: the lines collected after the last header of the poll are neither
\* parsed nor kept, and the position moves to the end of the file.
ProcessFile ==
    /\ frontend = "process_file"
    /\ LET start == StartOffset(Len(detail), file_positions)
           r == ScanLines(LinesFrom(start), <<>>, <<>>)
       IN  /\ Len(detail) > start
           /\ last_pos' = start
           /\ all_records' = all_records \o r.records
    /\ file_positions' = Len(detail)
    /\ UNCHANGED <<frontend, detail, buffer, rotations, followRest>>

\* RadiusFileHandler.process_new_lines: one modification event.  The lines
\* collected after the last header stay in self.buffer[filepath].
ProcessNewLines ==
    /\ frontend = "process_new_lines"
    /\ Len(detail) # file_positions
    /\ LET start == StartOffset(Len(detail), file_positions)
           r == ScanLines(LinesFrom(start), buffer, <<>>)
       IN  /\ last_pos' = start
           /\ all_records' = all_records \o r.records
           /\ buffer' = r.buffer
    /\ file_positions' = Len(detail)
    /\ UNCHANGED <<frontend, detail, rotations, followRest>>

\* follow_lines: one readline.  The line joins the buffer; a blank line
\* hands the buffer to the parser and empties it.
FollowLines ==
    /\ frontend = "follow_lines"
    /\ Len(detail) > file_positions
    /\ LET line == detail[file_positions + 1]
           block == Append(buffer, line)
       IN  IF line.kind = "blank"
           THEN /\ all_records' =
                       IF ParseLines(block) # None
                       THEN Append(all_records, ParseLines(block))
                       ELSE all_records
                /\ buffer' = <<>>
           ELSE /\ buffer' = block
                /\ UNCHANGED all_records
    /\ file_positions' = file_positions + 1
    /\ UNCHANGED <<frontend, detail, last_pos, rotations, followRest>>

\* tail_and_process: one readline.  A blank line after a non-empty buffer
\* makes the entry of the buffer and empties it; any other line joins it.
TailAndProcess ==
    /\ frontend = "tail_and_process"
    /\ Len(detail) > file_positions
    /\ LET line == detail[file_positions + 1]
       IN  IF line.kind = "blank" /\ buffer # <<>>
           THEN /\ all_records' =
                       IF ParseLines(buffer) # None
                       THEN Append(all_records, ParseLines(buffer))
                       ELSE all_records
                /\ buffer' = <<>>
           ELSE /\ buffer' = Append(buffer, line)
                /\ UNCHANGED all_records
    /\ file_positions' = file_positions + 1
    /\ UNCHANGED <<frontend, detail, last_pos, rotations, followRest>>

NextFollow ==
    \/ WriteDetail
    \/ ProcessFile
    \/ ProcessNewLines
    \/ FollowLines
    \/ TailAndProcess

SpecFollow == InitFollow /\ [][NextFollow]_vars

\* The followers of a detail file that is rotated.
NextRotate ==
    \/ NextFollow
    \/ Rotate

SpecRotate == InitFollow /\ [][NextRotate]_vars

(***************************************************************************)
(* Properties of the followers of a detail file (under SpecFollow).        *)
(***************************************************************************)
\* The attribute lines of block k the front-end has read.
ReadOf(k) ==
    LET first == (k - 1) * LinesPerBlock + 1
        last == k * LinesPerBlock
    IN  {LineAt(i) : i \in {j \in first..last :
                                j <= file_positions /\ LineAt(j).kind = "attr"}}

\* The records made of block k so far.
ParsedOf(k) == {i \in DOMAIN all_records : all_records[i] = WholeBlock(k)}

\* C20: in every front-end a block is parsed at most once and only with
\* all of its lines, and until it is parsed the lines read of it are kept
\* for the later iterations.
C20_TrailingBlockRetained ==
    /\ \A i \in DOMAIN all_records :
           \E k \in 1..MaxBlocks : all_records[i] = WholeBlock(k)
    /\ \A k \in 1..MaxBlocks :
           /\ Cardinality(ParsedOf(k)) <= 1
           /\ ParsedOf(k) = {} =>
                  ReadOf(k) \subseteq {buffer[i] : i \in DOMAIN buffer}

(***************************************************************************)
(* Properties of the audit rows of the backfill (under Spec).              *)
(***************************************************************************)
\* C22: a file whose processing has ended, normally or after an
\* interruption that followed at least one flushed batch, has an audit row
\* keyed by its name.
C22_AuditOnInterruption ==
    \A f \in Files :
        (wpc[f] \in Terminal /\ inserted[f] > 0) => AuditRowsOf(f) # {}

\* The rows of radius_matches the records of file f can add at most: one
\* for each natural key among them.
KeysOf(f) == DurableUpTo(f, Len(Entries(f)))

\* C23: the inserted figure of an audit row counts the rows newly added to
\* radius_matches, so it is at most the number of natural keys of the file,
\* and the deduplicated figure counts every record skipped for its key.
C23_AuditCounts ==
    \A a \in audit :
        /\ a.inserted <= Cardinality(KeysOf(a.filename))
        /\ a.deduplicated >= a.processed - Cardinality(KeysOf(a.filename))

(***************************************************************************)
(* Properties of the watchers of a rotated detail file (under SpecRotate). *)
(***************************************************************************)
\* A read of the polling or of the event-driven watcher.
WatcherRead == ProcessFile \/ ProcessNewLines

\* C21: a read of the polling or event-driven watcher starts at offset
\* zero when the file is smaller than the remembered offset and at the
\* remembered offset otherwise, and leaves the remembered offset at the
\* position reached in the file.
C21_RotationDetection ==
    [][WatcherRead =>
           /\ Len(detail) < file_positions => last_pos' = 0
           /\ Len(detail) >= file_positions => last_pos' = file_positions
           /\ file_positions' = Len(detail)]_vars

\* After a rotation a watcher has read the new file from offset zero: the
\* first block of the old file and the first block of the new one are both
\* parsed.
C21_Witness ==
    /\ rotations = 1
    /\ last_pos = 0
    /\ Cardinality(ParsedOf(1)) = 2

(***************************************************************************)
(* read_log_entries, applied to every text of at most MaxLines lines.      *)
(***************************************************************************)
\* Lines of an input text.
MaxLines == 4

\* A line of a text: the word line.strip() leaves of it ("" for a blank
\* line) and whether whitespace surrounds the word.
TextLine(pad, word) == [pad |-> pad, word |-> word]

TextLines ==
    {TextLine(FALSE, ""), TextLine(TRUE, ""), TextLine(FALSE, "a"),
     TextLine(TRUE, "b")}

\* line.strip()
Strip(line) == line.word

Texts == UNION {[1..n -> TextLines] : n \in 0..MaxLines}

\* The final entry is not yielded.
FinalEntryDropped(buf, out) == out

\* if buffer: yield buffer (after the loop)
FinalEntry(buf, out) == IF buf # <<>> THEN Append(out, buf) ELSE out

\* for line in f: a blank line after a non-empty buffer yields the buffer,
\* a non-blank line joins it.
RECURSIVE SplitLines(_, _, _)
SplitLines(lines, buf, out) ==
    IF lines = <<>> THEN FinalEntry(buf, out)
    ELSE LET line == Strip(Head(lines))
         IN  IF line = "" /\ buf # <<>>
             THEN SplitLines(Tail(lines), <<>>, Append(out, buf))
             ELSE IF line # ""
                  THEN SplitLines(Tail(lines), Append(buf, line), out)
                  ELSE SplitLines(Tail(lines), buf, out)

read_log_entries(text) == SplitLines(text, <<>>, <<>>)

InitSplit ==
    /\ history = {}
    /\ latest = {}
    /\ audit = {}
    /\ content = [f \in Files |-> Position(f)]
    /\ present = [f \in Files |-> FALSE]
    /\ progress = <<>>
    /\ lock = FALSE
    /\ opc = "idle"
    /\ run = 0
    /\ faults = 0
    /\ wpc = [f \in Files |-> "idle"]
    /\ resume_pos = [f \in Files |-> 0]
    /\ pos = [f \in Files |-> 0]
    /\ batch = [f \in Files |-> <<>>]
    /\ processed = [f \in Files |-> 0]
    /\ inserted = [f \in Files |-> 0]
    /\ submitted = [f \in Files |-> {}]
    /\ lastSaved = [f \in Files |-> 0]
    /\ auditCommits = [f \in Files |-> 0]
    /\ auditedInRun = [f \in Files |-> FALSE]
    /\ TailIdle
    /\ LockIdle
    /\ SaveIdle
    /\ DecodeIdle
    /\ BlockIdle
    /\ FollowIdle
    /\ text_in \in Texts
    /\ yielded = [done |-> FALSE, entries |-> <<>>]
    /\ LiveIdle
    /\ PoolIdle
    /\ LoginIdle
    /\ IncrIdle

\* What the splitter specification leaves alone.
splitRest ==
    <<dbVars, diskVars, ctlVars, faults, wpc, localVars, auditVars, tailVars,
      lockVars, saveVars, decodeVars, blockVars, followVars, liveVars,
      poolVars, loginVars, incrVars>>

\* list(read_log_entries(file_path))
ReadLogEntries ==
    /\ ~yielded.done
    /\ yielded' = [done |-> TRUE, entries |-> read_log_entries(text_in)]
    /\ UNCHANGED <<text_in, splitRest>>

NextSplit == ReadLogEntries

SpecSplit == InitSplit /\ [][NextSplit]_vars

(***************************************************************************)
(* Properties of read_log_entries (under SpecSplit).                       *)
(***************************************************************************)
\* The line i of the text is not blank.
NonBlank(i) == Strip(text_in[i]) # ""

\* The lines that start a maximal run of non-blank lines.
RunStarts ==
    {i \in DOMAIN text_in : NonBlank(i) /\ (i = 1 \/ ~NonBlank(i - 1))}

\* The last line of the maximal run that starts at line i.
RunEnd(i) ==
    CHOOSE e \in i..Len(text_in) :
        /\ \A j \in i..e : NonBlank(j)
        /\ e = Len(text_in) \/ ~NonBlank(e + 1)

\* The start of the n-th run of the text.
NthStart(n) ==
    CHOOSE i \in RunStarts : Cardinality({j \in RunStarts : j < i}) = n - 1

\* C24: read_log_entries yields one entry for each maximal run of
\* consecutive non-blank lines, in file order, each with the lines of its
\* run; no entry is empty and a final run without a blank line after it is
\* yielded too.
C24_BlockSplitting ==
    yielded.done =>
        /\ Len(yielded.entries) = Cardinality(RunStarts)
        /\ \A n \in DOMAIN yielded.entries :
               LET i == NthStart(n)
               IN  /\ yielded.entries[n] # <<>>
                   /\ yielded.entries[n] =
                          [k \in 1..(RunEnd(i) - i + 1) |->
                              Strip(text_in[i + k - 1])]

\* The entries of a text with two consecutive blank lines inside and no
\* blank line at its end have been yielded.
C24_Witness ==
    /\ yielded.done
    /\ Len(text_in) = MaxLines
    /\ ~NonBlank(2)
    /\ ~NonBlank(3)
    /\ NonBlank(Len(text_in))
    /\ Len(yielded.entries) = 2

(***************************************************************************)
(* RadiusWatcher.run: each iteration of the loop polls the file with       *)
(* process_file and hands the records it returns to insert_records.        *)
(***************************************************************************)
\* The record parse_radius_record makes of block k.
BlockRecord(k) == Rec(MA, "i1", 4039, k)

\* The records of one poll, as insert_records receives them.
BlockRecords(parsed) == [i \in DOMAIN parsed |-> BlockRecord(parsed[i].msisdn)]

InitPoll ==
    /\ InitFollow
    /\ frontend = "process_file"

\* What an iteration of RadiusWatcher.run leaves alone.
pollRest ==
    <<diskVars, ctlVars, faults, wpc, localVars, auditVars, tailVars,
      lockVars, saveVars, decodeVars, blockVars, splitVars, liveVars,
      poolVars, loginVars, incrVars>>

\* One iteration: process_file reads the new lines and moves the offset,
\* then insert_records writes the records of the poll and commits (ok), or
\* fails, rolls back and returns 0; all_records of the iteration is dropped
\* either way.
RunIteration(ok) ==
    /\ frontend = "process_file"
    /\ LET start == StartOffset(Len(detail), file_positions)
           r == ScanLines(LinesFrom(start), <<>>, <<>>)
       IN  /\ Len(detail) > start
           /\ ~ok => r.records # <<>>
           /\ last_pos' = start
           /\ all_records' = all_records \o r.records
           /\ IF ok
              THEN /\ latest' = UpsertLatestWatcherMany(
                                    latest, BlockRecords(r.records))
                   /\ history' = InsertHistoryMany(
                                     history, BlockRecords(r.records))
              ELSE UNCHANGED dbVars
    /\ file_positions' = Len(detail)
    /\ UNCHANGED <<frontend, detail, buffer, rotations, pollRest>>

NextPoll ==
    \/ WriteDetail
    \/ Rotate
    \/ \E ok \in BOOLEAN : RunIteration(ok)

SpecPoll == InitPoll /\ [][NextPoll]_vars

(***************************************************************************)
(* Properties of the polling watcher's loop (under SpecPoll).              *)
(***************************************************************************)
\* C25: once the watcher has nothing left to read, every record its polls
\* returned is in radius_matches: a record whose insert failed has been
\* written by a later poll.
C25_NoLostRecords ==
    file_positions = Len(detail) =>
        \A i \in DOMAIN all_records :
            HistoryRow(BlockRecord(all_records[i].msisdn)) \in history

(***************************************************************************)
(* radius_watcher_live: main starts one follow_lines thread for each path  *)
(* of WATCH_PATHS.  A thread that has read a block up to its blank line    *)
(* opens /tmp/live_radius_block for writing, writes the block, and runs    *)
(* the parser on that file.  The n-th block of path p is <<p, n>>.         *)
(***************************************************************************)
InitLive ==
    /\ history = {}
    /\ latest = {}
    /\ audit = {}
    /\ content = [f \in Files |-> Position(f)]
    /\ present = [f \in Files |-> FALSE]
    /\ progress = <<>>
    /\ lock = FALSE
    /\ opc = "idle"
    /\ run = 0
    /\ faults = 0
    /\ wpc = [f \in Files |-> "idle"]
    /\ resume_pos = [f \in Files |-> 0]
    /\ pos = [f \in Files |-> 0]
    /\ batch = [f \in Files |-> <<>>]
    /\ processed = [f \in Files |-> 0]
    /\ inserted = [f \in Files |-> 0]
    /\ submitted = [f \in Files |-> {}]
    /\ lastSaved = [f \in Files |-> 0]
    /\ auditCommits = [f \in Files |-> 0]
    /\ auditedInRun = [f \in Files |-> FALSE]
    /\ TailIdle
    /\ LockIdle
    /\ SaveIdle
    /\ DecodeIdle
    /\ BlockIdle
    /\ FollowIdle
    /\ SplitIdle
    /\ LiveIdle
    /\ PoolIdle
    /\ LoginIdle
    /\ IncrIdle

\* What the live tail specification leaves alone.
liveRest ==
    <<dbVars, diskVars, ctlVars, faults, wpc, localVars, auditVars, tailVars,
      lockVars, saveVars, decodeVars, blockVars, followVars, splitVars,
      poolVars, loginVars, incrVars>>

\* The block the thread of path p has in its buffer.
CurrentBlock(p) == <<p, Len(handed[p]) + 1>>

\* open("/tmp/live_radius_block", "w"): the thread of p has read the blank
\* line of its next block; the file is truncated.
LiveOpen(p) ==
    /\ lpc[p] = "reading"
    /\ Len(handed[p]) < MaxBlocks
    /\ temp' = <<>>
    /\ lpc' = [lpc EXCEPT ![p] = "open"]
    /\ UNCHANGED <<handed, liveRest>>

\* temp.writelines(buffer) and the end of the with block.
LiveWrite(p) ==
    /\ lpc[p] = "open"
    /\ temp' = <<CurrentBlock(p)>>
    /\ lpc' = [lpc EXCEPT ![p] = "written"]
    /\ UNCHANGED <<handed, liveRest>>

\* subprocess.run(["python3", PARSER, "/tmp/live_radius_block"]): the
\* parser reads what the file holds now; then buffer = [].
LiveParse(p) ==
    /\ lpc[p] = "written"
    /\ handed' = [handed EXCEPT ![p] = Append(@, temp)]
    /\ lpc' = [lpc EXCEPT ![p] = "reading"]
    /\ UNCHANGED <<temp, liveRest>>

NextLive ==
    \E p \in WATCH_PATHS :
        \/ LiveOpen(p)
        \/ LiveWrite(p)
        \/ LiveParse(p)

SpecLive == InitLive /\ [][NextLive]_vars

(***************************************************************************)
(* Properties of the live tail threads (under SpecLive).                   *)
(***************************************************************************)
\* C26: what the parser launched by a thread reads is exactly the block
\* that thread has just read.
C26_NoInterference ==
    \A p \in WATCH_PATHS :
        \A n \in DOMAIN handed[p] : handed[p][n] = <<<<p, n>>>>

(***************************************************************************)
(* backfill(): the loop over the sources.  Each source gets its own        *)
(* ThreadPoolExecutor of MAX_WORKERS workers; every file of the source is  *)
(* submitted, and the with block ends when the executor has shut down.     *)
(***************************************************************************)
InitSources ==
    /\ history = {}
    /\ latest = {}
    /\ audit = {}
    /\ content = [f \in Files |-> Position(f)]
    /\ present = [f \in Files |-> FALSE]
    /\ progress = <<>>
    /\ lock = FALSE
    /\ opc = "idle"
    /\ run = 0
    /\ faults = 0
    /\ wpc = [f \in Files |-> "idle"]
    /\ resume_pos = [f \in Files |-> 0]
    /\ pos = [f \in Files |-> 0]
    /\ batch = [f \in Files |-> <<>>]
    /\ processed = [f \in Files |-> 0]
    /\ inserted = [f \in Files |-> 0]
    /\ submitted = [f \in Files |-> {}]
    /\ lastSaved = [f \in Files |-> 0]
    /\ auditCommits = [f \in Files |-> 0]
    /\ auditedInRun = [f \in Files |-> FALSE]
    /\ TailIdle
    /\ LockIdle
    /\ SaveIdle
    /\ DecodeIdle
    /\ BlockIdle
    /\ FollowIdle
    /\ SplitIdle
    /\ LiveIdle
    /\ pgw_pos = 0
    /\ fstate = [f \in AllSourceFiles |-> "found"]
    /\ pool = [w \in 1..MAX_WORKERS |-> "none"]
    /\ handled = [f \in AllSourceFiles |-> {}]
    /\ LoginIdle
    /\ IncrIdle

\* What the sources specification leaves alone.
poolRest ==
    <<dbVars, diskVars, ctlVars, faults, wpc, localVars, auditVars, tailVars,
      lockVars, saveVars, decodeVars, blockVars, followVars, splitVars,
      liveVars, loginVars, incrVars>>

\* The future of a file has a result or an exception.
Ended == {"done", "failed"}

\* The executor shuts down without waiting for its futures.
ExecutorLeftEarly(s) == TRUE

\* The end of the with block: executor.shutdown(wait=True) returns when
\* every future of the source has ended.
ExecutorShutDown(s) == \A f \in FilesOf(s) : fstate[f] \in Ended

\* for pgw_ip, files in all_logs.items(): the next source is entered, a new
\* executor is made and every file of the source is submitted.
EnterSource ==
    /\ pgw_pos < Len(SourceFiles)
    /\ pgw_pos > 0 => ExecutorShutDown(pgw_pos)
    /\ pgw_pos' = pgw_pos + 1
    /\ fstate' = [f \in AllSourceFiles |->
                     IF f \in FilesOf(pgw_pos + 1) THEN "queued"
                     ELSE fstate[f]]
    /\ UNCHANGED <<pool, handled, poolRest>>

\* The first file of the work queue of the executor.
NextQueued(s) ==
    LET i == CHOOSE j \in DOMAIN SourceFiles[s] :
                 /\ fstate[SourceFiles[s][j]] = "queued"
                 /\ \A k \in 1..(j - 1) : fstate[SourceFiles[s][k]] # "queued"
    IN  SourceFiles[s][i]

\* An idle worker of the executor takes the first queued file and calls
\* process_log_file.
TakeFile(w) ==
    /\ pgw_pos > 0
    /\ pool[w] = "none"
    /\ \E f \in FilesOf(pgw_pos) : fstate[f] = "queued"
    /\ LET f == NextQueued(pgw_pos)
       IN  /\ fstate' = [fstate EXCEPT ![f] = "running"]
           /\ pool' = [pool EXCEPT ![w] = f]
           /\ handled' = [handled EXCEPT ![f] = @ \cup {w}]
    /\ UNCHANGED <<pgw_pos, poolRest>>

\* process_log_file returns or raises; the worker is idle again.
FileEnds(w) ==
    /\ pool[w] # "none"
    /\ \E result \in Ended : fstate' = [fstate EXCEPT ![pool[w]] = result]
    /\ pool' = [pool EXCEPT ![w] = "none"]
    /\ UNCHANGED <<pgw_pos, handled, poolRest>>

NextSources ==
    \/ EnterSource
    \/ \E w \in 1..MAX_WORKERS : TakeFile(w)
    \/ \E w \in 1..MAX_WORKERS : FileEnds(w)

SpecSources == InitSources /\ [][NextSources]_vars

(***************************************************************************)
(* Properties of the loop over the sources (under SpecSources).            *)
(***************************************************************************)
\* The files a worker is running.
InProgress == {f \in AllSourceFiles : fstate[f] = "running"}

\* The source of a file.
SourceOf(f) == CHOOSE s \in DOMAIN SourceFiles : f \in FilesOf(s)

\* C27: the files in progress belong to one source; a file of a source is
\* submitted only when every file of the sources before it has ended; at
\* most MAX_WORKERS files are in progress and no file is run by two
\* workers.
C27_SourcesInTurn ==
    /\ \A f, g \in InProgress : SourceOf(f) = SourceOf(g)
    /\ \A f, g \in AllSourceFiles :
           (SourceOf(g) < SourceOf(f) /\ fstate[f] # "found") =>
               fstate[g] \in Ended
    /\ Cardinality(InProgress) <= MAX_WORKERS
    /\ \A f \in AllSourceFiles : Cardinality(handled[f]) <= 1
    /\ \A w, v \in 1..MAX_WORKERS :
           (pool[w] = pool[v] /\ pool[w] # "none") => w = v

\* Two files of the second source are in progress after a file of the
\* first source has failed.
C27_Witness ==
    /\ pgw_pos = 2
    /\ Cardinality(InProgress) = 2
    /\ \E f \in FilesOf(1) : fstate[f] = "failed"

(***************************************************************************)
(* security.py and login(): two POST requests for one existing user, each  *)
(* on its own thread.  db_lock is a threading.Lock: it is not reentrant.   *)
(* locked_until is "null", "future" (now < locked_until) or "past".        *)
(***************************************************************************)
\* Failed attempts that lock the account.
MAX_FAILED_ATTEMPTS == 2

InitLogin ==
    /\ history = {}
    /\ latest = {}
    /\ audit = {}
    /\ content = [f \in Files |-> Position(f)]
    /\ present = [f \in Files |-> FALSE]
    /\ progress = <<>>
    /\ lock = FALSE
    /\ opc = "idle"
    /\ run = 0
    /\ faults = 0
    /\ wpc = [f \in Files |-> "idle"]
    /\ resume_pos = [f \in Files |-> 0]
    /\ pos = [f \in Files |-> 0]
    /\ batch = [f \in Files |-> <<>>]
    /\ processed = [f \in Files |-> 0]
    /\ inserted = [f \in Files |-> 0]
    /\ submitted = [f \in Files |-> {}]
    /\ lastSaved = [f \in Files |-> 0]
    /\ auditCommits = [f \in Files |-> 0]
    /\ auditedInRun = [f \in Files |-> FALSE]
    /\ TailIdle
    /\ LockIdle
    /\ SaveIdle
    /\ DecodeIdle
    /\ BlockIdle
    /\ FollowIdle
    /\ SplitIdle
    /\ LiveIdle
    /\ PoolIdle
    /\ LoginIdle
    /\ IncrIdle

\* What the login specification leaves alone.
loginRest ==
    <<dbVars, diskVars, ctlVars, faults, wpc, localVars, auditVars, tailVars,
      lockVars, saveVars, decodeVars, blockVars, followVars, splitVars,
      liveVars, poolVars, incrVars>>

\* login(): user = get_user(username), which takes and releases db_lock.
GetUser(r) ==
    /\ apc[r] = "idle"
    /\ db_lock = "free"
    /\ apc' = [apc EXCEPT ![r] = "check"]
    /\ UNCHANGED <<db_lock, failed_attempts, locked_until, loginRest>>

\* check_account_locked: with db_lock, the row is read.
CheckEnter(r) ==
    /\ apc[r] = "check"
    /\ db_lock = "free"
    /\ db_lock' = r
    /\ apc' = [apc EXCEPT ![r] = "read"]
    /\ UNCHANGED <<failed_attempts, locked_until, loginRest>>

\* check_account_locked, still inside the with block: no lockout returns
\* (False, 0), a lockout in the future returns (True, remaining), a lockout
\* in the past calls reset_failed_attempts.
CheckDecide(r) ==
    /\ apc[r] = "read"
    /\ IF locked_until = "past"
       THEN /\ apc' = [apc EXCEPT ![r] = "reset_in_check"]
            /\ UNCHANGED db_lock
       ELSE /\ apc' = [apc EXCEPT ![r] =
                          IF locked_until = "future" THEN "audit"
                          ELSE "password"]
            /\ db_lock' = "free"
    /\ UNCHANGED <<failed_attempts, locked_until, loginRest>>

\* check_password_hash(user['password'], password)
CheckPassword(r) ==
    /\ apc[r] = "password"
    /\ \E next \in {"reset", "increment"} : apc' = [apc EXCEPT ![r] = next]
    /\ UNCHANGED <<db_lock, failed_attempts, locked_until, loginRest>>

\* reset_failed_attempts: with db_lock, the counter and the lockout are
\* cleared.  Called by login() after a good password and by
\* check_account_locked, which then returns (False, 0) and leaves its own
\* with block.
ResetFailedAttempts(r) ==
    /\ apc[r] \in {"reset", "reset_in_check"}
    /\ db_lock = "free"
    /\ failed_attempts' = 0
    /\ locked_until' = "null"
    /\ apc' = [apc EXCEPT ![r] =
                  IF apc[r] = "reset" THEN "audit" ELSE "password"]
    /\ UNCHANGED <<db_lock, loginRest>>

\* increment_failed_attempts: with db_lock, the counter grows and the
\* account is locked at the threshold.
IncrementFailedAttempts(r) ==
    /\ apc[r] = "increment"
    /\ db_lock = "free"
    /\ failed_attempts' = failed_attempts + 1
    /\ locked_until' =
           IF failed_attempts + 1 >= MAX_FAILED_ATTEMPTS THEN "future"
           ELSE locked_until
    /\ apc' = [apc EXCEPT ![r] = "audit"]
    /\ UNCHANGED <<db_lock, loginRest>>

\* update_last_login after a good password, then log_audit: each takes and
\* releases db_lock; the request is answered.
LogAudit(r) ==
    /\ apc[r] = "audit"
    /\ db_lock = "free"
    /\ apc' = [apc EXCEPT ![r] = "idle"]
    /\ UNCHANGED <<db_lock, failed_attempts, locked_until, loginRest>>

\* Time passes: the lockout is over.
LockoutExpires ==
    /\ locked_until = "future"
    /\ locked_until' = "past"
    /\ UNCHANGED <<apc, db_lock, failed_attempts, loginRest>>

NextLogin ==
    \/ LockoutExpires
    \/ \E r \in Requests :
          \/ GetUser(r)
          \/ CheckEnter(r)
          \/ CheckDecide(r)
          \/ CheckPassword(r)
          \/ ResetFailedAttempts(r)
          \/ IncrementFailedAttempts(r)
          \/ LogAudit(r)

SpecLogin == InitLogin /\ [][NextLogin]_vars

(***************************************************************************)
(* Properties of the account lockout (under SpecLogin).                    *)
(***************************************************************************)
\* C28: check_account_locked returns and releases db_lock: no request
\* waits inside it for the lock it holds itself.
C28_CheckReturns ==
    \A r \in Requests : ~(apc[r] = "reset_in_check" /\ db_lock = r)

(***************************************************************************)
(* Properties of radius_parser's batch writes (under SpecIngest).          *)
(***************************************************************************)
\* C29: the upsert of a batch into latest_traces ends, committed or rolled
\* back, before the insert into radius_matches is attempted and leaves
\* radius_matches alone; the history insert, written or rolled back, leaves
\* latest_traces alone.
C29_TwoTransactions ==
    [][/\ (ipc = "idle" /\ ipc' = "history") => history' = history
       /\ (ipc = "history" /\ ipc' = "idle") =>
              /\ latest' = latest
              /\ history' \in {history, InsertHistoryMany(history, ibatch)}
      ]_vars

\* The last batch of the parser is in latest_traces and not in
\* radius_matches: its upsert was committed and its history insert failed.
C29_Witness ==
    /\ lastPath = "parser"
    /\ ipc = "idle"
    /\ lastBatch # <<>>
    /\ \A i \in DOMAIN lastBatch :
           /\ HistoryRow(lastBatch[i]) \notin history
           /\ LatestRow(lastBatch[i], "radius") \in latest

(***************************************************************************)
(* trace_incremental.process_radius_logs, run again and again: the run     *)
(* reads the state file, processes every log file with the timestamp it    *)
(* read as filter, and writes the clock to the state file.                 *)
(***************************************************************************)
InitIncr ==
    /\ history = {}
    /\ latest = {}
    /\ audit = {}
    /\ content = [f \in Files |-> Position(f)]
    /\ present = [f \in Files |-> FALSE]
    /\ progress = <<>>
    /\ lock = FALSE
    /\ opc = "idle"
    /\ run = 0
    /\ faults = 0
    /\ wpc = [f \in Files |-> "idle"]
    /\ resume_pos = [f \in Files |-> 0]
    /\ pos = [f \in Files |-> 0]
    /\ batch = [f \in Files |-> <<>>]
    /\ processed = [f \in Files |-> 0]
    /\ inserted = [f \in Files |-> 0]
    /\ submitted = [f \in Files |-> {}]
    /\ lastSaved = [f \in Files |-> 0]
    /\ auditCommits = [f \in Files |-> 0]
    /\ auditedInRun = [f \in Files |-> FALSE]
    /\ TailIdle
    /\ LockIdle
    /\ SaveIdle
    /\ DecodeIdle
    /\ BlockIdle
    /\ FollowIdle
    /\ SplitIdle
    /\ LiveIdle
    /\ PoolIdle
    /\ LoginIdle
    /\ tpc = "idle"
    /\ since_ts = 0
    /\ state_ts = 0
    /\ tfiles = [f \in LogFiles |-> "waiting"]
    /\ stored = {}
    /\ event_ts \in [LogFiles -> 1..MaxEventTime]
    /\ clock = MaxEventTime

\* What the incremental specification leaves alone.
incrRest ==
    <<dbVars, diskVars, ctlVars, faults, wpc, localVars, auditVars, tailVars,
      lockVars, saveVars, decodeVars, blockVars, followVars, splitVars,
      liveVars, poolVars, loginVars>>

\* Time passes.
Tick ==
    /\ clock < MaxClock
    /\ clock' = clock + 1
    /\ UNCHANGED <<tpc, since_ts, state_ts, tfiles, stored, event_ts,
                   incrRest>>

\* last_ts = read_last_timestamp(); every file is submitted with it.
IncrementalStarts ==
    /\ tpc = "idle"
    /\ tpc' = "running"
    /\ since_ts' = state_ts
    /\ tfiles' = [f \in LogFiles |-> "submitted"]
    /\ UNCHANGED <<state_ts, stored, event_ts, clock, incrRest>>

\* process_log_file(f, since_ts) returns: the event is skipped when
\* timestamp <= since_ts and inserted otherwise.
FileProcessed(f) ==
    /\ tpc = "running"
    /\ tfiles[f] = "submitted"
    /\ tfiles' = [tfiles EXCEPT ![f] = "done"]
    /\ stored' = IF event_ts[f] <= since_ts THEN stored ELSE stored \cup {f}
    /\ UNCHANGED <<tpc, since_ts, state_ts, event_ts, clock, incrRest>>

\* process_log_file(f, since_ts) raises (the file cannot be read, or
\* bulk_insert_records fails): nothing of the file is committed and
\* process_radius_logs logs the failure.
FileFails(f) ==
    /\ tpc = "running"
    /\ tfiles[f] = "submitted"
    /\ tfiles' = [tfiles EXCEPT ![f] = "failed"]
    /\ UNCHANGED <<tpc, since_ts, state_ts, stored, event_ts, clock, incrRest>>

\* Every future has ended: write_last_timestamp(datetime.now(timezone.utc)).
IncrementalEnds ==
    /\ tpc = "running"
    /\ \A f \in LogFiles : tfiles[f] \in {"done", "failed"}
    /\ state_ts' = clock
    /\ tpc' = "idle"
    /\ UNCHANGED <<since_ts, tfiles, stored, event_ts, clock, incrRest>>

NextIncr ==
    \/ Tick
    \/ IncrementalStarts
    \/ \E f \in LogFiles : FileProcessed(f)
    \/ \E f \in LogFiles : FileFails(f)
    \/ IncrementalEnds

SpecIncr == InitIncr /\ [][NextIncr]_vars

(***************************************************************************)
(* Properties of the incremental runs (under SpecIncr).                    *)
(***************************************************************************)
\* C30: the timestamp in the state file is advanced only past events that
\* are in the database: an event that is not there passes the filter of
\* the next run.
C30_FailedFilesNotSkipped ==
    \A f \in LogFiles : event_ts[f] <= state_ts => f \in stored

=============================================================================
